---- MODULE Spec2Model ----
(***************************************************************************)
(* Storage adapters (Google Drive / local API), their session lifecycle,   *)
(* the application's boot sequence and the daily reminder check of         *)
(* piotrgredowski/illbeing, as state machines.                             *)
(*                                                                         *)
(* One JavaScript task (a handler run up to its next network await) is one *)
(* action: the event loop runs a task and its microtasks to completion, so *)
(* other handlers interleave only where the code awaits the network, a     *)
(* popup or a timer.                                                       *)
(***************************************************************************)
EXTENDS Integers, Sequences, FiniteSets, TLC

\* ------------------------------------------------------------------ bounds
\* The clock runs over 0..MaxTime (abstract milliseconds).
MaxTime == 3
\* A token response carries expires_in in 1..MaxExpiresIn.
MaxExpiresIn == 2
\* Cap on the interactive flows open at once (the code keeps it at one).
MaxFlows == 2
\* Cap on the reminders counted within one day (the code keeps it at one).
MaxFires == 2
\* Cap on bootSequence: the backend effect runs at most MaxBoots times.
MaxBoots == 2
\* Check-ins fall on the local days 0..MaxCheckInDay.
MaxCheckInDay == 4
\* The sheet listRatings reads holds at most MaxListRows rows.
MaxListRows == 2
\* The sheet read for the weekly chart holds at most MaxRows rows.
MaxRows == 3
\* The text of the rating input has at most MaxLen characters.
MaxLen == 3
\* The local day is cut into SlotsPerDay times of day; days run over 0..MaxDay.
SlotsPerDay == 3
MaxDay == 1
\* The check-ins read for the word cloud: at most MaxCloudEntries entries
\* holding at most MaxCloudWords words between them.
MaxCloudEntries == 2
MaxCloudWords == 4
\* The local API adapter is followed for at most MaxFetches requests.
MaxFetches == 3

\* --------------------------------------------------------------- variables
VARIABLES
  \* environment
  now,                  \* Date.now()
  cookie,               \* the being_better_auth cookie
  clientIdSet,          \* GOOGLE_CLIENT_ID is non-empty
  \* the adapter under test
  kind,                 \* "google" | "local_api"
  authState,            \* AuthState
  tokenClient,          \* GoogleDriveRatingsAdapter.tokenClient !== null
  hasGrantedToken,
  currentSpreadsheetId,
  pendingSignIn,        \* GoogleDriveRatingsAdapter.pendingSignIn !== null
  gapiToken,            \* window.gapi.client token is set
  ready,                \* LocalApiRatingsAdapter.ready
  \* tasks in flight
  initPc,               \* position of init()
  signIn,               \* state of the promise of the accepted requestSignIn()
  openFlows,            \* interactive flows opened by requestAccessToken, unanswered
  tokenTask,            \* handleTokenResponse awaiting ensureSpreadsheet
  storageOp,            \* appendRating / listRatings awaiting its remote request
  \* the last event and what its caller observed
  lastOp,
  \* the application (App.tsx)
  selectedBackend,      \* signal selectedBackend
  bootSequence,
  adapter,              \* signal adapter: the instance createAdapter returned, by number
  boots,                \* the boot() tasks, by sequence number
  isReady,              \* signal isReady
  signInEnabled,        \* signal signInEnabled
  toasts,               \* signal toasts
  nextToastId,
  locale,               \* signal locale
  themePreference,      \* signal themePreference
  reminderEnabled,      \* signal reminderEnabled
  reminderTime,         \* signal reminderTime, as a slot of the day
  \* the reminder check (App.tsx, settings)
  day,                  \* local calendar day of new Date()
  slot,                 \* local time of day of new Date()
  lastSentDateKey,      \* persisted date key of the last reminder
  permission,           \* what detectNotificationPermissionState() returns
  notificationPermission, \* signal notificationPermission
  isInstalled,          \* signal isInstalled
  mounted,              \* onMount has run
  permissionTask,       \* handleRequestReminderPermission awaiting requestPermission
  firedToday,           \* reminders fired on the current day
  lastCheck,            \* what the last maybeSendReminder() did
  \* the rating form (App.tsx)
  ratingValue,          \* signal ratingValue, as a sequence of characters
  formReady,            \* adapter() is set and its isReady() is true
  submitPc,             \* handleSubmitRating: whether it awaits appendRating, and with what
  appendCalls,          \* the ratings adapter.appendRating was invoked with
  persisted,            \* the ratings the store holds
  formStatus,           \* the status the form showed last
  \* the weekly chart (config/env.ts)
  rows,                 \* response.result.values: the rows of the sheet
  weekNow,              \* new Date(), as an instant
  chartPoints,          \* the points handed to drawWeeklyChart
  \* listRatings (googleDrive.ts)
  range,                \* the RatingsRange listRatings was called with
  listed,               \* what listRatings resolved with
  \* check-in insights (App.tsx, analytics)
  checkIns,             \* the instants of the check-ins listCheckIns resolved with
  insightsNow,          \* new Date(), as an instant
  checkInInsights,      \* signal checkInInsights
  \* the word cloud (App.tsx, analytics)
  cloudRows,            \* the check-ins listCheckIns resolved with, as their words
  cloudWords,           \* signal cloudWords
  \* the remote settings (App.tsx, the adapters' optional capability)
  settingsStore,        \* the settings blob the backend holds, key by key
  lastSettingsOp,       \* the last saveSettings / loadSettings call and its blob
  \* the adapter factory (createAdapter)
  envBackend,           \* getEnvVar("VITE_DATA_BACKEND")
  requested,            \* the argument of the last createAdapter call
  \* the local API adapter's traffic (localApi.ts)
  fetchLog,             \* the requests fetch was called with, in order
  healthLog,            \* the answers the health requests got, in order
  localResponse,        \* the body of the last ok response to a list request
  localListed,          \* what the local listRatings resolved with
  \* init()'s wait for the external scripts (googleDrive.ts, waitFor)
  waitClock,            \* Date.now() - started, in ms
  scriptLoaded,         \* per script: does its check() hold
  waitPc,               \* per script: "idle", "polling", "resolved", "rejected"
  timerDue,             \* per script: has the 50 ms of its timer passed
  scriptsPc,            \* Promise.all of the two waits
  \* ensureSpreadsheet's runs and the user's Drive (googleDrive.ts 198-218)
  drive,                \* per spreadsheet id: is it there, its sheets, its row 1
  provPc,               \* per task: the request an active run is awaiting
  provId,               \* per task: the spreadsheet id the run holds
  provAdd,              \* per task: the sheet titles its batchUpdate adds
  lastRun,              \* how the run that ended last ended
  \* the app's sign-in button (App.tsx, handleSignIn)
  signInTask,           \* per adapter created: its handleSignIn, awaiting or not
  \* several adapter instances on one Drive account
  instances,            \* per instance: its ensureSpreadsheet run and the id it holds
  \* check-in form
  checkInForm,          \* the words input, the other fields, the submission awaited
  \* local persistence of the reminder settings
  localReminder         \* what persistReminderSettings wrote last

adapterVars == <<kind, authState, tokenClient, hasGrantedToken, currentSpreadsheetId,
                 pendingSignIn, gapiToken, ready>>
taskVars == <<initPc, signIn, openFlows, tokenTask, storageOp>>
envVars == <<now, cookie, clientIdSet>>
bootVars == <<selectedBackend, bootSequence, adapter, boots>>
uiVars == <<isReady, signInEnabled, toasts, nextToastId>>
settingVars == <<locale, themePreference, reminderEnabled, reminderTime>>
reminderVars == <<day, slot, lastSentDateKey, permission, notificationPermission,
                  isInstalled, mounted, permissionTask, firedToday, lastCheck>>
appVars == <<bootVars, uiVars, settingVars, reminderVars>>
formVars == <<ratingValue, formReady, submitPc, appendCalls, persisted, formStatus>>
weekVars == <<rows, weekNow, chartPoints>>
listVars == <<range, listed>>
insightVars == <<checkIns, insightsNow, checkInInsights>>
cloudVars == <<cloudRows, cloudWords>>
storeVars == <<settingsStore, lastSettingsOp>>
factoryVars == <<envBackend, requested>>
localVars == <<fetchLog, healthLog, localResponse, localListed>>
waitVars == <<waitClock, scriptLoaded, waitPc, timerDue, scriptsPc>>
provVars == <<drive, provPc, provId, provAdd, lastRun>>
tailVars == <<signInTask, instances, checkInForm, localReminder>>
laterVars == <<cloudVars, storeVars, factoryVars, localVars, waitVars, provVars, tailVars>>
calcVars == <<formVars, weekVars, listVars, insightVars, laterVars>>
oldVars == <<envVars, adapterVars, taskVars, lastOp, appVars, formVars, weekVars, listVars,
             insightVars>>
restOfCloud == <<oldVars, storeVars, factoryVars, localVars, waitVars, provVars, tailVars>>
restOfStore == <<envVars, adapterVars, taskVars, lastOp, formVars, weekVars, listVars,
                 insightVars, cloudVars, factoryVars, localVars, waitVars, provVars, tailVars>>
restOfFactory == <<appVars, formVars, weekVars, listVars, insightVars, cloudVars, storeVars,
                   localVars, waitVars, provVars, tailVars>>
restOfLocal == <<appVars, formVars, weekVars, listVars, insightVars, cloudVars, storeVars,
                 factoryVars, waitVars, provVars, tailVars>>
restOfWait == <<appVars, formVars, weekVars, listVars, insightVars, cloudVars, storeVars,
                factoryVars, localVars, provVars, tailVars>>
restOfProv == <<appVars, formVars, weekVars, listVars, insightVars, cloudVars, storeVars,
                factoryVars, localVars, waitVars, tailVars>>
restOfAccount == <<now, clientIdSet, adapterVars, taskVars, lastOp, appVars, formVars, weekVars,
                   listVars, insightVars, cloudVars, storeVars, factoryVars, localVars, waitVars,
                   provPc, provId, provAdd, lastRun, signInTask, checkInForm,
                   localReminder>>
restOfTail == <<formVars, weekVars, listVars, insightVars, cloudVars, storeVars, factoryVars,
                localVars, waitVars, provVars, localReminder>>
restOfLocalReminder == <<envVars, adapterVars, taskVars, bootVars, uiVars, locale,
                         themePreference, day, slot, lastSentDateKey, permission,
                         notificationPermission, permissionTask, firedToday, lastCheck,
                         formVars, weekVars, listVars, insightVars, cloudVars, storeVars,
                         factoryVars, localVars, waitVars, provVars, signInTask, instances,
                         checkInForm>>
vars == <<envVars, adapterVars, taskVars, lastOp, appVars, calcVars>>

\* ------------------------------------------------------------------ values
AuthStates == {"initializing", "needs_login", "connected"}
DataBackends == {"google", "local_api"}
NoId == "null"
SheetId == "sheet"
NoCookie == [kind |-> "none", expiresAtMs |-> 0]
GarbageCookie == [kind |-> "garbage", expiresAtMs |-> 0]
NoTask == [active |-> FALSE, pending |-> FALSE]

\* The last event: the operation or callback that ran, how it settled for its
\* caller ("pending" while its promise is unsettled), whether it issued a remote
\* request, and what it saw: for init() the persisted session it found, for the
\* end of a storage operation the response of its request.
Op(op, outcome, remote) == [op |-> op, outcome |-> outcome, remote |-> remote, saw |-> "-"]
Settled(op, outcome) == [op |-> op, outcome |-> outcome, remote |-> FALSE, saw |-> "response"]
InitOp(outcome, remote, saw) == [op |-> "init", outcome |-> outcome, remote |-> remote, saw |-> saw]
CookieClass(c, t) ==
  IF c.kind # "session" THEN c.kind
  ELSE IF c.expiresAtMs <= t THEN "expired" ELSE "valid"

\* ----------------------------------------------------------- cookie store
\* persistAuthSession: the cookie holds the session with its expiry.
PersistAuthSession(expiresAtMs) == [kind |-> "session", expiresAtMs |-> expiresAtMs]

\* readAuthSession: null for a missing or unparseable cookie.
ReadAuthSession(c) == IF c.kind = "session" THEN c ELSE NoCookie

\* clearAuthSession: deleteCookie.
ClearAuthSession == NoCookie

\* restoreSessionFromCookie: Date.now() >= session.expiresAtMs.
SessionExpiredLate(session, t) == t > session.expiresAtMs
SessionExpired(session, t) == t >= session.expiresAtMs

\* ----------------------------------------------------------------- probes
GoogleIsReady == currentSpreadsheetId # NoId
LocalIsReady == ready
IsReady == IF kind = "google" THEN GoogleIsReady ELSE LocalIsReady
GetAuthState == authState

\* --------------------------------------------------- Google adapter: init
\* init(), lines 57-59: no spreadsheet after the restore means needs_login.
InitTailNeedsLogin(spreadsheetId, state) == "needs_login"
InitTail(spreadsheetId, state) == IF spreadsheetId = NoId THEN "needs_login" ELSE state

\* init() up to its first await: the client id check.
GoogleInit ==
  /\ kind = "google" /\ initPc = "idle"
  /\ IF ~clientIdSet
       THEN /\ authState' = "needs_login"
            /\ initPc' = "rejected"
            /\ lastOp' = InitOp("rejected", FALSE, "-")
       ELSE /\ authState' = authState
            /\ initPc' = "loading"
            /\ lastOp' = InitOp("pending", TRUE, "-")
  /\ UNCHANGED <<calcVars, appVars, envVars, kind, tokenClient, hasGrantedToken, currentSpreadsheetId,
                 pendingSignIn, gapiToken, ready, signIn, openFlows, tokenTask, storageOp>>

\* waitForGoogle / waitForGapi time out, loadGoogleApis rejects, or
\* initTokenClient throws: init() rejects.
GoogleInitScriptsFail ==
  /\ kind = "google" /\ initPc = "loading"
  /\ initPc' = "rejected"
  /\ lastOp' = InitOp("rejected", FALSE, "-")
  /\ UNCHANGED <<calcVars, appVars, envVars, adapterVars, signIn, openFlows, tokenTask, storageOp>>

\* The scripts are loaded: initTokenClient, then restoreSessionFromCookie up
\* to its await of ensureSpreadsheet (or to its end, and then init()'s).
GoogleInitScriptsLoaded ==
  /\ kind = "google" /\ initPc = "loading"
  /\ tokenClient' = TRUE
  /\ LET session == ReadAuthSession(cookie)
         saw == CookieClass(cookie, now) IN
     IF session.kind # "session"
       THEN /\ cookie' = cookie
            /\ authState' = InitTail(currentSpreadsheetId, authState)
            /\ initPc' = "resolved"
            /\ lastOp' = InitOp("resolved", FALSE, saw)
            /\ UNCHANGED <<hasGrantedToken, gapiToken>>
       ELSE IF SessionExpired(session, now)
         THEN /\ cookie' = ClearAuthSession
              /\ authState' = InitTail(currentSpreadsheetId, authState)
              /\ initPc' = "resolved"
              /\ lastOp' = InitOp("resolved", FALSE, saw)
              /\ UNCHANGED <<hasGrantedToken, gapiToken>>
         ELSE /\ cookie' = cookie
              /\ gapiToken' = TRUE
              /\ hasGrantedToken' = TRUE
              /\ authState' = authState
              /\ initPc' = "restoring"
              /\ lastOp' = InitOp("pending", TRUE, saw)
  /\ UNCHANGED <<calcVars, appVars, now, clientIdSet, kind, currentSpreadsheetId, pendingSignIn, ready,
                 signIn, openFlows, tokenTask, storageOp>>

\* restoreSessionFromCookie: ensureSpreadsheet resolved.
RestoreResolves(spreadsheetId) ==
  /\ kind = "google" /\ initPc = "restoring"
  /\ currentSpreadsheetId' = spreadsheetId
  /\ authState' = InitTail(spreadsheetId, "connected")
  /\ initPc' = "resolved"
  /\ lastOp' = InitOp("resolved", FALSE, "restored")
  /\ UNCHANGED <<envVars, kind, tokenClient, hasGrantedToken, pendingSignIn, gapiToken,
                 ready, signIn, openFlows, tokenTask, storageOp>>

GoogleRestoreSucceeds == RestoreResolves(SheetId) /\ UNCHANGED <<calcVars, appVars>>

\* restoreSessionFromCookie: ensureSpreadsheet rejected (the catch block).
RestoreRejects ==
  /\ kind = "google" /\ initPc = "restoring"
  /\ cookie' = ClearAuthSession
  /\ gapiToken' = FALSE
  /\ authState' = InitTail(currentSpreadsheetId, "needs_login")
  /\ initPc' = "resolved"
  /\ lastOp' = InitOp("resolved", FALSE, "restoreFailed")
  /\ UNCHANGED <<now, clientIdSet, kind, tokenClient, hasGrantedToken,
                 currentSpreadsheetId, pendingSignIn, ready, signIn, openFlows,
                 tokenTask, storageOp>>

GoogleRestoreFails == RestoreRejects /\ UNCHANGED <<calcVars, appVars>>

\* ------------------------------------------------ Google adapter: sign-in
\* requestSignIn(), line 67: the re-entrancy guard.
SignInNeverInProgress == FALSE
SignInInProgress == pendingSignIn

\* pending?.resolve() / pending?.reject(error): the promise of the request
\* held in the slot is settled; without one nothing is.
SignInLeftUnsettled(pending, outcome, promise) == promise
SettleSignIn(pending, outcome, promise) == IF pending THEN outcome ELSE promise

\* requestSignIn(), line 63: no OAuth token client yet.
ClientNeverMissing == FALSE
ClientMissing == ~tokenClient

\* The responses the provider's callback can carry.
TokenResponses == [access_token : BOOLEAN, expires_in : 1..MaxExpiresIn]

\* requestSignIn().
GoogleRequestSignIn ==
  /\ kind = "google"
  /\ IF ClientMissing \/ SignInInProgress
       THEN /\ lastOp' = Op("requestSignIn", "rejected", FALSE)
            /\ UNCHANGED <<authState, pendingSignIn, signIn, openFlows>>
       ELSE /\ openFlows < MaxFlows
            /\ authState' = "initializing"
            /\ pendingSignIn' = TRUE
            /\ signIn' = "pending"
            /\ openFlows' = openFlows + 1
            /\ lastOp' = Op("requestSignIn", "pending", TRUE)
  /\ UNCHANGED <<calcVars, appVars, envVars, kind, tokenClient, hasGrantedToken, currentSpreadsheetId,
                 gapiToken, ready, initPc, tokenTask, storageOp>>

\* initTokenClient's error_callback: the provider reports a cancelled or
\* failed flow.
GoogleErrorCallback ==
  /\ kind = "google" /\ openFlows > 0
  /\ openFlows' = openFlows - 1
  /\ authState' = "needs_login"
  /\ pendingSignIn' = FALSE
  /\ signIn' = SettleSignIn(pendingSignIn, "rejected", signIn)
  /\ lastOp' = Op("error_callback", IF pendingSignIn THEN "rejected" ELSE "none", FALSE)
  /\ UNCHANGED <<calcVars, appVars, envVars, kind, tokenClient, hasGrantedToken, currentSpreadsheetId,
                 gapiToken, ready, initPc, tokenTask, storageOp>>

\* handleTokenResponse, line 164: the state a provisioned session is given.
AuthStateNotSet(state) == state
AuthStateAfterToken(state) == "connected"

\* initTokenClient's callback: handleTokenResponse up to its await of
\* ensureSpreadsheet, or through its catch when the token is missing.
GoogleTokenCallback(response) ==
  /\ kind = "google" /\ openFlows > 0 /\ ~tokenTask.active
  /\ openFlows' = openFlows - 1
  /\ IF ~response.access_token
       THEN /\ cookie' = ClearAuthSession
            /\ authState' = "needs_login"
            /\ signIn' = SettleSignIn(pendingSignIn, "rejected", signIn)
            /\ pendingSignIn' = FALSE
            /\ lastOp' = Op("handleTokenResponse",
                            IF pendingSignIn THEN "rejected" ELSE "none", FALSE)
            /\ UNCHANGED <<hasGrantedToken, gapiToken, tokenTask>>
       ELSE /\ cookie' = PersistAuthSession(now + response.expires_in)
            /\ gapiToken' = TRUE
            /\ hasGrantedToken' = TRUE
            /\ tokenTask' = [active |-> TRUE, pending |-> pendingSignIn]
            /\ lastOp' = Op("handleTokenResponse", "pending", TRUE)
            /\ UNCHANGED <<authState, signIn, pendingSignIn>>
  /\ UNCHANGED <<calcVars, appVars, now, clientIdSet, kind, tokenClient, currentSpreadsheetId, ready,
                 initPc, storageOp>>

\* handleTokenResponse: ensureSpreadsheet resolved.
TokenResolves(spreadsheetId) ==
  /\ kind = "google" /\ tokenTask.active
  /\ currentSpreadsheetId' = spreadsheetId
  /\ authState' = AuthStateAfterToken(authState)
  /\ signIn' = SettleSignIn(tokenTask.pending, "resolved", signIn)
  /\ pendingSignIn' = FALSE
  /\ tokenTask' = NoTask
  /\ lastOp' = Op("handleTokenResponse", IF tokenTask.pending THEN "resolved" ELSE "none", FALSE)
  /\ UNCHANGED <<envVars, kind, tokenClient, hasGrantedToken, gapiToken, ready,
                 initPc, openFlows, storageOp>>

GoogleTokenProvisioned == TokenResolves(SheetId) /\ UNCHANGED <<calcVars, appVars>>

\* handleTokenResponse: ensureSpreadsheet rejected (catch, then finally).
TokenRejects ==
  /\ kind = "google" /\ tokenTask.active
  /\ cookie' = ClearAuthSession
  /\ authState' = "needs_login"
  /\ signIn' = SettleSignIn(tokenTask.pending, "rejected", signIn)
  /\ pendingSignIn' = FALSE
  /\ tokenTask' = NoTask
  /\ lastOp' = Op("handleTokenResponse", IF tokenTask.pending THEN "rejected" ELSE "none", FALSE)
  /\ UNCHANGED <<now, clientIdSet, kind, tokenClient, hasGrantedToken,
                 currentSpreadsheetId, gapiToken, ready, initPc, openFlows, storageOp>>

GoogleTokenProvisionFails == TokenRejects /\ UNCHANGED <<calcVars, appVars>>

\* ---------------------------------------------------- local API adapter
\* init() up to its await of the health request.
LocalInit ==
  /\ kind = "local_api" /\ initPc = "idle"
  /\ initPc' = "loading"
  /\ lastOp' = InitOp("pending", TRUE, "-")
  /\ UNCHANGED <<calcVars, appVars, envVars, adapterVars, signIn, openFlows, tokenTask, storageOp>>

\* init(): the health response is ok.
LocalHealthOk ==
  /\ kind = "local_api" /\ initPc = "loading"
  /\ ready' = TRUE
  /\ authState' = "connected"
  /\ initPc' = "resolved"
  /\ lastOp' = InitOp("resolved", FALSE, "-")
  /\ UNCHANGED <<calcVars, appVars, envVars, kind, tokenClient, hasGrantedToken, currentSpreadsheetId,
                 pendingSignIn, gapiToken, signIn, openFlows, tokenTask, storageOp>>

\* init(): the health response is not ok, or fetch rejects.
LocalHealthFails ==
  /\ kind = "local_api" /\ initPc = "loading"
  /\ initPc' = "rejected"
  /\ lastOp' = InitOp("rejected", FALSE, "-")
  /\ UNCHANGED <<calcVars, appVars, envVars, adapterVars, signIn, openFlows, tokenTask, storageOp>>

\* ------------------------------------------------------ storage operations
StorageOps == {"appendRating", "listRatings"}

\* The guard at the head of appendRating / listRatings: the Google adapter
\* tests currentSpreadsheetId, the local one assertReady().
GoogleSignInRequired == currentSpreadsheetId = NoId
LocalNotReady == ~ready

\* What a failed remote request does to authState: nothing.
AuthStateDroppedOnFailure(state) == "needs_login"
AuthStateAfterStorageFailure(state) == state

\* appendRating(entry) / listRatings(range) up to the await of the request.
GoogleStorageCall(op) ==
  /\ kind = "google"
  /\ IF GoogleSignInRequired
       THEN /\ lastOp' = Op(op, "rejected", FALSE)
            /\ storageOp' = storageOp
       ELSE /\ storageOp = "idle"
            /\ storageOp' = op
            /\ lastOp' = Op(op, "pending", TRUE)
  /\ UNCHANGED <<calcVars, appVars, envVars, adapterVars, initPc, signIn, openFlows, tokenTask>>

LocalStorageCall(op) ==
  /\ kind = "local_api"
  /\ IF LocalNotReady
       THEN /\ lastOp' = Op(op, "rejected", FALSE)
            /\ storageOp' = storageOp
       ELSE /\ storageOp = "idle"
            /\ storageOp' = op
            /\ lastOp' = Op(op, "pending", TRUE)
  /\ UNCHANGED <<calcVars, appVars, envVars, adapterVars, initPc, signIn, openFlows, tokenTask>>

\* The remote request resolved (for the local adapter: with an ok response).
StorageSucceeds ==
  /\ storageOp # "idle"
  /\ storageOp' = "idle"
  /\ lastOp' = Settled(storageOp, "resolved")
  /\ UNCHANGED <<calcVars, appVars, envVars, adapterVars, initPc, signIn, openFlows, tokenTask>>

\* The remote request rejected (or the local API answered not ok).
StorageFails ==
  /\ storageOp # "idle"
  /\ storageOp' = "idle"
  /\ authState' = AuthStateAfterStorageFailure(authState)
  /\ lastOp' = Settled(storageOp, "rejected")
  /\ UNCHANGED <<calcVars, appVars, envVars, kind, tokenClient, hasGrantedToken, currentSpreadsheetId,
                 pendingSignIn, gapiToken, ready, initPc, signIn, openFlows, tokenTask>>

\* ------------------------------------------------------------ environment
\* Time passes.
Tick ==
  /\ now < MaxTime
  /\ now' = now + 1
  /\ lastOp' = Op("tick", "none", FALSE)
  /\ UNCHANGED <<calcVars, appVars, cookie, clientIdSet, adapterVars, taskVars>>

\* The browser drops the cookie once its max-age has run out.
CookieExpires ==
  /\ cookie.kind = "session" /\ now >= cookie.expiresAtMs
  /\ cookie' = NoCookie
  /\ lastOp' = Op("cookieExpired", "none", FALSE)
  /\ UNCHANGED <<calcVars, appVars, now, clientIdSet, adapterVars, taskVars>>

\* new GoogleDriveRatingsAdapter() / new LocalApiRatingsAdapter(): an instance
\* with the field initialisers' values, and no task of its own.
NewAdapter(backend) ==
  /\ kind' = backend
  /\ authState' = "initializing"
  /\ tokenClient' = FALSE
  /\ hasGrantedToken' = FALSE
  /\ currentSpreadsheetId' = NoId
  /\ pendingSignIn' = FALSE
  /\ gapiToken' = FALSE
  /\ ready' = FALSE
  /\ initPc' = "idle"
  /\ signIn' = "none"
  /\ openFlows' = 0
  /\ tokenTask' = NoTask
  /\ storageOp' = "idle"
  /\ lastOp' = Op("createAdapter", "none", FALSE)

\* createAdapter(backend) on a fresh page: a new instance with the
\* constructor's field values; the cookie outlives it.
CreateAdapter(backend) ==
  /\ NewAdapter(backend)
  /\ UNCHANGED <<calcVars, appVars, envVars>>

\* ------------------------------------------------------- the application
Locales == {"en", "pl"}
ThemePreferences == {"light", "dark", "system"}
Slots == 0..(SlotsPerDay - 1)
\* syncReminderSettings: parseReminderTime(nextTime) ?? "20:00", the last slot.
DefaultReminderTime == SlotsPerDay - 1
NoBoot == [pc |-> "none", backend |-> "null", authState |-> "initializing",
           hasSettings |-> FALSE]
NoKey == -1
NoSlot == -1

\* The application before App() has run: what the adapter specification
\* holds the application's variables at.
BootAtRest ==
  /\ selectedBackend = "google"
  /\ bootSequence = 0
  /\ adapter = 0
  /\ boots = [s \in 1..MaxBoots |-> NoBoot]
  /\ isReady = FALSE
  /\ signInEnabled = FALSE
  /\ toasts = {}
  /\ nextToastId = 1

AppAtRest ==
  /\ BootAtRest
  /\ locale = "en"
  /\ themePreference = "system"
  /\ reminderEnabled = FALSE
  /\ reminderTime = DefaultReminderTime

ReminderAtRest ==
  /\ day = 0
  /\ slot = 0
  /\ lastSentDateKey = NoKey
  /\ permission = "default"
  /\ notificationPermission = "default"
  /\ isInstalled = FALSE
  /\ mounted = FALSE
  /\ permissionTask = FALSE
  /\ firedToday = 0
  /\ lastCheck = "none"

\* The rating form before anything is typed.
NoSubmit == [awaiting |-> FALSE, rating |-> 0]
FormAtRest ==
  /\ ratingValue = <<"5">>
  /\ formReady = FALSE
  /\ submitPc = NoSubmit
  /\ appendCalls = {}
  /\ persisted = {}
  /\ formStatus = "none"

\* The weekly chart before any refresh.
WeekAtRest ==
  /\ rows = <<>>
  /\ weekNow = 0
  /\ chartPoints = <<>>

\* No listRatings call has been made.
ListAtRest ==
  /\ range = [fromIso |-> "", toIso |-> ""]
  /\ listed = <<>>

\* The insights as the signal is created.
NoInsights == [refreshed |-> FALSE, currentStreak |-> 0]
InsightsAtRest ==
  /\ checkIns = {}
  /\ insightsNow = 0
  /\ checkInInsights = NoInsights

\* The word cloud as the signal is created.
NoCloud == [refreshed |-> FALSE, words |-> <<>>]
CloudAtRest ==
  /\ cloudRows = <<>>
  /\ cloudWords = NoCloud

\* No settings saved, no call made.
EmptyBlob == [k \in {} |-> ""]
NoSettingsOp == [op |-> "none", blob |-> EmptyBlob]
StoreAtRest ==
  /\ settingsStore = EmptyBlob
  /\ lastSettingsOp = NoSettingsOp

\* No backend configured, createAdapter called with none.
Undefined == "undefined"
FactoryAtRest ==
  /\ envBackend = Undefined
  /\ requested = Undefined

\* No request made.
NoPayload == [hasItems |-> FALSE, items |-> <<>>]
LocalAtRest ==
  /\ fetchLog = <<>>
  /\ healthLog = <<>>
  /\ localResponse = NoPayload
  /\ localListed = <<>>

\* No wait started.
Scripts == {"google", "gapi"}
WaitAtRest ==
  /\ waitClock = 0
  /\ scriptLoaded = [w \in Scripts |-> FALSE]
  /\ waitPc = [w \in Scripts |-> "idle"]
  /\ timerDue = [w \in Scripts |-> FALSE]
  /\ scriptsPc = "idle"

\* No run of ensureSpreadsheet, an empty Drive.
OtherSheetId == "sheet2"
SheetIds == {SheetId, OtherSheetId}
Tasks == {"restore", "token"}
NoFile == [exists |-> FALSE, sheets |-> {}, header |-> "none"]
ProvAtRest ==
  /\ drive = [id \in SheetIds |-> NoFile]
  /\ provPc = [k \in Tasks |-> "find"]
  /\ provId = [k \in Tasks |-> NoId]
  /\ provAdd = [k \in Tasks |-> {}]
  /\ lastRun = "none"

\* No handleSignIn awaiting, no instance running.
Instances == {"first", "second"}
NoRun == [task |-> "none", pc |-> "find", id |-> NoId, add |-> {}, held |-> NoId,
          authState |-> "initializing"]
ReminderSettings(enabled, time) == [enabled |-> enabled, time |-> time]
EmptyCheckIn == [wordsInput |-> <<>>, extras |-> FALSE, awaiting |-> FALSE, sent |-> {},
                 stored |-> {}, status |-> "none"]
TailAtRest ==
  /\ signInTask = [s \in 1..MaxBoots |-> "none"]
  /\ instances = [a \in Instances |-> NoRun]
  /\ checkInForm = EmptyCheckIn
  /\ localReminder = ReminderSettings(FALSE, DefaultReminderTime)

LaterAtRest ==
  /\ CloudAtRest /\ StoreAtRest /\ FactoryAtRest /\ LocalAtRest /\ WaitAtRest /\ ProvAtRest
  /\ TailAtRest

CalcAtRest == FormAtRest /\ WeekAtRest /\ ListAtRest /\ InsightsAtRest /\ LaterAtRest

\* ------------------------------------------------------- the adapter spec
InitialCookies ==
  {NoCookie, GarbageCookie} \cup {PersistAuthSession(e) : e \in 0..MaxExpiresIn}

Init ==
  /\ now = 0
  /\ cookie \in InitialCookies
  /\ clientIdSet \in BOOLEAN
  /\ kind \in DataBackends
  /\ authState = "initializing"
  /\ tokenClient = FALSE
  /\ hasGrantedToken = FALSE
  /\ currentSpreadsheetId = NoId
  /\ pendingSignIn = FALSE
  /\ gapiToken = FALSE
  /\ ready = FALSE
  /\ initPc = "idle"
  /\ signIn = "none"
  /\ openFlows = 0
  /\ tokenTask = NoTask
  /\ storageOp = "idle"
  /\ lastOp = Op("createAdapter", "none", FALSE)
  /\ AppAtRest
  /\ ReminderAtRest
  /\ CalcAtRest

Next ==
  \/ GoogleInit
  \/ GoogleInitScriptsFail
  \/ GoogleInitScriptsLoaded
  \/ GoogleRestoreSucceeds
  \/ GoogleRestoreFails
  \/ GoogleRequestSignIn
  \/ GoogleErrorCallback
  \/ \E response \in TokenResponses : GoogleTokenCallback(response)
  \/ GoogleTokenProvisioned
  \/ GoogleTokenProvisionFails
  \/ LocalInit
  \/ LocalHealthOk
  \/ LocalHealthFails
  \/ \E op \in StorageOps : GoogleStorageCall(op)
  \/ \E op \in StorageOps : LocalStorageCall(op)
  \/ StorageSucceeds
  \/ StorageFails
  \/ Tick
  \/ CookieExpires
  \/ \E backend \in DataBackends : CreateAdapter(backend)

Spec == Init /\ [][Next]_vars

\* ------------------------------------------------------------ boot sequence
\* The adapter as the constructor leaves it.
AdapterAtRest ==
  /\ now = 0
  /\ cookie = NoCookie
  /\ clientIdSet = TRUE
  /\ kind = "google"
  /\ authState = "initializing"
  /\ tokenClient = FALSE
  /\ hasGrantedToken = FALSE
  /\ currentSpreadsheetId = NoId
  /\ pendingSignIn = FALSE
  /\ gapiToken = FALSE
  /\ ready = FALSE
  /\ initPc = "idle"
  /\ signIn = "none"
  /\ openFlows = 0
  /\ tokenTask = NoTask
  /\ storageOp = "idle"
  /\ lastOp = Op("createAdapter", "none", FALSE)

\* The ways init() settles, as the adapter actions above settle it: how the
\* promise ends, the authState it leaves, and the error it rejects with.
InitOutcome(settled, state, error) == [settled |-> settled, authState |-> state, error |-> error]
InitOutcomes(backend) ==
  IF backend = "google"
    THEN {InitOutcome("resolved", "connected", "none"),
          InitOutcome("resolved", "needs_login", "none"),
          InitOutcome("rejected", "needs_login", "MissingGoogleClientIdError"),
          InitOutcome("rejected", "initializing", "Error")}
    ELSE {InitOutcome("resolved", "connected", "none"),
          InitOutcome("rejected", "initializing", "Error")}

\* resolveInitFailureStatus(backend, error).
ResolveInitFailureStatusForGoogle(backend, error) ==
  IF error = "MissingGoogleClientIdError"
    THEN [key |-> "status.missingClientId", isError |-> TRUE]
    ELSE [key |-> "status.googleClientInitFailed", isError |-> TRUE]
ResolveInitFailureStatus(backend, error) ==
  IF error = "MissingGoogleClientIdError"
    THEN [key |-> "status.missingClientId", isError |-> TRUE]
    ELSE IF backend = "local_api"
      THEN [key |-> "status.localApiUnavailable", isError |-> TRUE]
      ELSE [key |-> "status.googleClientInitFailed", isError |-> TRUE]

\* boot()'s isStale, for the boot with this sequence number, backend and
\* adapter, against the current bootSequence, selectedBackend() and adapter().
IsStaleBackendOnly(sequence, backend, currentAdapter, seqNow, selectedNow, adapterNow) ==
  selectedNow # backend
IsStale(sequence, backend, currentAdapter, seqNow, selectedNow, adapterNow) ==
  sequence # seqNow \/ selectedNow # backend \/ adapterNow # currentAdapter

BootIsStale(s) == IsStale(s, boots[s].backend, s, bootSequence, selectedBackend, adapter)

\* A boot() task started for a new adapter; hasSettings tells whether the
\* adapter implements the optional loadSettings / saveSettings.
NewBoot(backend, hasSettings) ==
  [pc |-> "init", backend |-> backend, authState |-> "initializing",
   hasSettings |-> hasSettings]

\* setStatus(text, isError) with a toast.
Toast(text, isError) == [id |-> nextToastId, text |-> text, isError |-> isError]

\* The effect on selectedBackend(): a new sequence number, a new adapter, the
\* flags reset, and boot() run up to its await of init().  boot() reads
\* locale() through t() before that await, so the effect runs again when the
\* locale changes.
BackendEffect(backend, hasSettings, bootsNow) ==
  /\ bootSequence < MaxBoots
  /\ bootSequence' = bootSequence + 1
  /\ adapter' = bootSequence + 1
  /\ isReady' = FALSE
  /\ signInEnabled' = FALSE
  /\ boots' = [bootsNow EXCEPT ![bootSequence + 1] = NewBoot(backend, hasSettings)]

\* handleBackendSelection(backend): the selection changes.
HandleBackendSelection(backend) ==
  /\ mounted
  /\ backend # selectedBackend
  /\ selectedBackend' = backend
  /\ \E h \in BOOLEAN : BackendEffect(backend, h, boots)
  /\ UNCHANGED <<toasts, nextToastId, settingVars, reminderVars,
                 envVars, adapterVars, taskVars, lastOp,
                 calcVars>>

\* syncLocale(nextLocale).
SyncLocale(nextLocale) ==
  /\ mounted
  /\ nextLocale # locale
  /\ locale' = nextLocale
  /\ \E h \in BOOLEAN : BackendEffect(selectedBackend, h, boots)
  /\ UNCHANGED <<selectedBackend, toasts, nextToastId, themePreference, reminderEnabled,
                 reminderTime, reminderVars, envVars, adapterVars, taskVars, lastOp,
                 calcVars>>

\* boot() resumes after await currentAdapter.init().
BootInitSettles(s, outcome) ==
  /\ boots[s].pc = "init"
  /\ outcome \in InitOutcomes(boots[s].backend)
  /\ LET b == [boots[s] EXCEPT !.authState = outcome.authState] IN
     IF BootIsStale(s)
       THEN /\ boots' = [boots EXCEPT ![s] = [b EXCEPT !.pc = "stale"]]
            /\ UNCHANGED uiVars
       ELSE IF outcome.settled = "rejected"
         THEN LET failure == ResolveInitFailureStatus(b.backend, outcome.error) IN
              /\ boots' = [boots EXCEPT ![s] = [b EXCEPT !.pc = "failed"]]
              /\ toasts' = toasts \cup {Toast(failure.key, failure.isError)}
              /\ nextToastId' = nextToastId + 1
              /\ signInEnabled' = FALSE
              /\ isReady' = isReady
         ELSE IF outcome.authState # "connected"
           THEN /\ boots' = [boots EXCEPT ![s] = [b EXCEPT !.pc = "needsLogin"]]
                /\ signInEnabled' = TRUE
                /\ UNCHANGED <<isReady, toasts, nextToastId>>
           ELSE IF b.hasSettings
             THEN /\ boots' = [boots EXCEPT ![s] = [b EXCEPT !.pc = "hydrate"]]
                  /\ UNCHANGED uiVars
             ELSE /\ boots' = [boots EXCEPT ![s] = [b EXCEPT !.pc = "connected"]]
                  /\ isReady' = TRUE
                  /\ signInEnabled' = FALSE
                  /\ UNCHANGED <<toasts, nextToastId>>
  /\ UNCHANGED <<selectedBackend, bootSequence, adapter, settingVars, reminderVars,
                 envVars, adapterVars, taskVars, lastOp,
                 calcVars>>

\* The settings a remote blob can hold; "missing" and NoSlot stand for an
\* absent or unparseable value.
SettingsBlobs ==
  [locale : Locales \cup {"missing"},
   theme_preference : {"dark", "system", "missing"},
   reminder_enabled : {"0", "1", "missing"},
   reminder_time : {0, DefaultReminderTime, NoSlot}]

\* parseBooleanSetting.
ParseBooleanSetting(value, fallback) ==
  IF value = "1" THEN TRUE ELSE IF value = "0" THEN FALSE ELSE fallback

\* The effect on isInstalled() and reminderEnabled(): a reminder is switched
\* off while the app is not installed.
InstalledEffect(enabled) == IF ~isInstalled THEN FALSE ELSE enabled

\* boot() resumes in hydrateSettingsFromAdapter after await loadSettings(),
\* with the blob loaded.
BootSettingsLoaded(s, blob) ==
  /\ boots[s].pc = "hydrate"
  /\ IF BootIsStale(s)
       THEN /\ boots' = [boots EXCEPT ![s].pc = "stale"]
            /\ UNCHANGED <<bootSequence, adapter, uiVars, settingVars>>
       ELSE LET localeChanges == blob.locale # "missing" /\ blob.locale # locale
                seqAfter == IF localeChanges THEN bootSequence + 1 ELSE bootSequence
                staleAfter == IsStale(s, boots[s].backend, s, seqAfter, selectedBackend, seqAfter)
                bootsAfter == [boots EXCEPT ![s].pc = IF staleAfter THEN "stale" ELSE "save"]
                nextEnabled == ParseBooleanSetting(blob.reminder_enabled, reminderEnabled)
            IN
            /\ locale' = IF localeChanges THEN blob.locale ELSE locale
            /\ themePreference' = IF blob.theme_preference # "missing"
                                    THEN blob.theme_preference ELSE themePreference
            /\ reminderEnabled' = InstalledEffect(nextEnabled)
            /\ reminderTime' = IF blob.reminder_time # NoSlot
                                 THEN blob.reminder_time ELSE reminderTime
            /\ IF localeChanges
                 THEN \E h \in BOOLEAN : BackendEffect(selectedBackend, h, bootsAfter)
                 ELSE /\ boots' = bootsAfter
                      /\ UNCHANGED <<bootSequence, adapter, isReady, signInEnabled>>
            /\ UNCHANGED <<toasts, nextToastId>>
  /\ UNCHANGED <<selectedBackend, reminderVars, envVars, adapterVars, taskVars, lastOp,
                 calcVars>>

\* loadSettings() rejected: hydrateSettingsFromAdapter logs it, and boot()
\* goes on to its staleness check and to persistSettingsToAdapter.
BootSettingsLoadFails(s) ==
  /\ boots[s].pc = "hydrate"
  /\ boots' = [boots EXCEPT ![s].pc = IF BootIsStale(s) THEN "stale" ELSE "save"]
  /\ UNCHANGED <<selectedBackend, bootSequence, adapter, uiVars, settingVars,
                 reminderVars, envVars, adapterVars, taskVars, lastOp,
                 calcVars>>

\* boot() resumes after await persistSettingsToAdapter(currentAdapter), whose
\* saveSettings resolved or rejected (a rejection is logged).
BootSettingsSaved(s) ==
  /\ boots[s].pc = "save"
  /\ IF BootIsStale(s)
       THEN /\ boots' = [boots EXCEPT ![s].pc = "stale"]
            /\ UNCHANGED uiVars
       ELSE /\ boots' = [boots EXCEPT ![s].pc = "connected"]
            /\ isReady' = TRUE
            /\ signInEnabled' = FALSE
            /\ UNCHANGED <<toasts, nextToastId>>
  /\ UNCHANGED <<selectedBackend, bootSequence, adapter, settingVars, reminderVars,
                 envVars, adapterVars, taskVars, lastOp,
                 calcVars>>

\* setStatus's timeout removes the toast.
DismissToast(toast) ==
  /\ toast \in toasts
  /\ toasts' = toasts \ {toast}
  /\ UNCHANGED <<bootVars, isReady, signInEnabled, nextToastId, settingVars,
                 reminderVars, envVars, adapterVars, taskVars, lastOp,
                 calcVars>>

\* App() mounted: the backend effect has run once and the first boot() is
\* awaiting init().
BootInit ==
  /\ AdapterAtRest
  /\ selectedBackend \in DataBackends
  /\ bootSequence = 1
  /\ adapter = 1
  /\ \E h \in BOOLEAN :
        boots = [s \in 1..MaxBoots |-> IF s = 1 THEN NewBoot(selectedBackend, h) ELSE NoBoot]
  /\ isReady = FALSE
  /\ signInEnabled = FALSE
  /\ toasts = {}
  /\ nextToastId = 1
  /\ locale \in Locales
  /\ themePreference = "system"
  /\ reminderEnabled = FALSE
  /\ reminderTime = DefaultReminderTime
  /\ day = 0
  /\ slot = 0
  /\ lastSentDateKey = NoKey
  /\ permission = "default"
  /\ notificationPermission = "default"
  /\ isInstalled \in BOOLEAN
  /\ mounted = TRUE
  /\ permissionTask = FALSE
  /\ firedToday = 0
  /\ lastCheck = "none"
  /\ CalcAtRest

BootNext ==
  \/ \E backend \in DataBackends : HandleBackendSelection(backend)
  \/ \E nextLocale \in Locales : SyncLocale(nextLocale)
  \/ \E s \in 1..MaxBoots : \E outcome \in InitOutcomes(boots[s].backend) :
        BootInitSettles(s, outcome)
  \/ \E s \in 1..MaxBoots : \E blob \in SettingsBlobs : BootSettingsLoaded(s, blob)
  \/ \E s \in 1..MaxBoots : BootSettingsLoadFails(s)
  \/ \E s \in 1..MaxBoots : BootSettingsSaved(s)
  \/ \E toast \in toasts : DismissToast(toast)

BootSpec == BootInit /\ [][BootNext]_vars

\* ---------------------------------------------------------- reminder check
PermissionStates == {"default", "granted", "denied", "unsupported"}

\* The date key of a local calendar day.
DateKey(d) == d

\* shouldSendDailyReminder({enabled, time}, now): enabled, the time of day
\* reached, and no reminder marked sent for today.
ShouldSendWhateverWasSent(enabled, time, nowDay, nowSlot, lastKey) ==
  enabled /\ nowSlot >= time
ShouldSendDailyReminder(enabled, time, nowDay, nowSlot, lastKey) ==
  enabled /\ nowSlot >= time /\ lastKey # DateKey(nowDay)

\* markReminderSent(now): the persisted key becomes today's.
MarkReminderSentNowhere(nowDay) == NoKey
MarkReminderSent(nowDay) == DateKey(nowDay)

\* parseReminderTime(value): NoSlot (null) for a value that is no time of day.
ParseReminderTime(value) == IF value \in Slots THEN value ELSE NoSlot

\* maybeSendReminder, line 451: the reminder is marked sent before the
\* permission is looked at.
LastSentIfNotified(perm, lastKey, nowDay) ==
  IF perm = "granted" THEN MarkReminderSent(nowDay) ELSE lastKey
LastSentAfterFire(perm, lastKey, nowDay) == MarkReminderSent(nowDay)

\* What maybeSendReminder produces for a due reminder: a notification with
\* the status reminderSent, or a status alone.
ReminderAlwaysNotifies(perm) == "notification"
ReminderDelivery(perm) ==
  IF perm = "granted" THEN "notification"
  ELSE IF perm = "unsupported" THEN "status.reminderDue"
  ELSE "status.reminderPermissionNeeded"

\* maybeSendReminder() with the settings and the browser's permission given;
\* shown is the notificationPermission signal as the caller left it.
MaybeSendReminder(enabled, time, perm, shown) ==
  IF ~ShouldSendDailyReminder(enabled, time, day, slot, lastSentDateKey)
    THEN /\ lastCheck' = "notDue"
         /\ UNCHANGED <<lastSentDateKey, firedToday>>
         /\ notificationPermission' = shown
    ELSE /\ firedToday < MaxFires
         /\ lastSentDateKey' = LastSentAfterFire(perm, lastSentDateKey, day)
         /\ notificationPermission' = perm
         /\ firedToday' = firedToday + 1
         /\ lastCheck' = ReminderDelivery(perm)

\* syncReminderSettings(nextEnabled, nextTime), followed by the effect that
\* switches the reminder off while the app is not installed.
SyncReminderSettings(nextEnabled, nextTime, installed) ==
  LET parsed == ParseReminderTime(nextTime)
      validTime == IF parsed = NoSlot THEN DefaultReminderTime ELSE parsed IN
  /\ reminderEnabled' = IF ~installed THEN FALSE ELSE nextEnabled
  /\ reminderTime' = validTime

\* onMount: isInstalled is set, the reminder is checked once and the
\* 30-second interval is started; then the installed effect runs.
Mount(standalone) ==
  /\ ~mounted
  /\ mounted' = TRUE
  /\ isInstalled' = standalone
  /\ MaybeSendReminder(reminderEnabled, reminderTime, permission, notificationPermission)
  /\ SyncReminderSettings(reminderEnabled, reminderTime, standalone)
  /\ UNCHANGED <<day, slot, permission, permissionTask, bootVars, uiVars, locale,
                 themePreference, envVars, adapterVars, taskVars, lastOp,
                 calcVars>>

\* The interval's tick: maybeSendReminder.
ReminderPoll ==
  /\ mounted
  /\ MaybeSendReminder(reminderEnabled, reminderTime, permission, notificationPermission)
  /\ UNCHANGED <<day, slot, permission, isInstalled, mounted, permissionTask, bootVars,
                 uiVars, settingVars, envVars, adapterVars, taskVars, lastOp,
                 calcVars>>

\* handleReminderEnabledChange.
HandleReminderEnabledChange(checked) ==
  /\ mounted
  /\ IF ~isInstalled
       THEN UNCHANGED <<reminderEnabled, reminderTime>>
       ELSE SyncReminderSettings(checked, reminderTime, isInstalled)
  /\ UNCHANGED <<reminderVars, bootVars, uiVars, locale, themePreference,
                 envVars, adapterVars, taskVars, lastOp,
                 calcVars>>

\* handleReminderTimeChange, with the text of the time input.
HandleReminderTimeChange(value) ==
  /\ mounted
  /\ SyncReminderSettings(reminderEnabled, value, isInstalled)
  /\ UNCHANGED <<reminderVars, bootVars, uiVars, locale, themePreference,
                 envVars, adapterVars, taskVars, lastOp,
                 calcVars>>

\* The appinstalled event.
AppInstalled ==
  /\ mounted /\ ~isInstalled
  /\ isInstalled' = TRUE
  /\ UNCHANGED <<day, slot, lastSentDateKey, permission, notificationPermission, mounted,
                 permissionTask, firedToday, lastCheck, bootVars, uiVars, settingVars,
                 envVars, adapterVars, taskVars, lastOp,
                 calcVars>>

\* handleRequestReminderPermission up to its await of requestPermission();
\* it ends at once where the Notification API is missing.
HandleRequestReminderPermission ==
  /\ mounted /\ ~permissionTask
  /\ IF permission = "unsupported"
       THEN /\ notificationPermission' = "unsupported"
            /\ permissionTask' = FALSE
       ELSE /\ notificationPermission' = notificationPermission
            /\ permissionTask' = TRUE
  /\ UNCHANGED <<day, slot, lastSentDateKey, permission, isInstalled, mounted, firedToday,
                 lastCheck, bootVars, uiVars, settingVars, envVars, adapterVars,
                 taskVars, lastOp,
                 calcVars>>

\* What requestPermission() can resolve to: the user's answer to the prompt,
\* or the decision already taken.
PermissionAnswers(perm) ==
  IF perm = "default" THEN {"default", "granted", "denied"} ELSE {perm}

\* handleRequestReminderPermission resumes with the permission; granted, it
\* checks the reminder.
PermissionAnswered(answer) ==
  /\ permissionTask
  /\ answer \in PermissionAnswers(permission)
  /\ permissionTask' = FALSE
  /\ permission' = answer
  /\ IF answer = "granted"
       THEN MaybeSendReminder(reminderEnabled, reminderTime, answer, answer)
       ELSE /\ notificationPermission' = answer
            /\ UNCHANGED <<lastSentDateKey, firedToday, lastCheck>>
  /\ UNCHANGED <<day, slot, isInstalled, mounted, bootVars, uiVars, settingVars,
                 envVars, adapterVars, taskVars, lastOp,
                 calcVars>>

\* The user changes the site's notification permission in the browser.
PermissionChanged(perm) ==
  /\ permission # "unsupported" /\ perm # permission
  /\ permission' = perm
  /\ UNCHANGED <<day, slot, lastSentDateKey, notificationPermission, isInstalled, mounted,
                 permissionTask, firedToday, lastCheck, bootVars, uiVars, settingVars,
                 envVars, adapterVars, taskVars, lastOp,
                 calcVars>>

\* The local clock moves to the next time of day, or to the next day.
ClockAdvances ==
  /\ IF slot < SlotsPerDay - 1
       THEN /\ slot' = slot + 1
            /\ UNCHANGED <<day, firedToday>>
       ELSE /\ day < MaxDay
            /\ day' = day + 1
            /\ slot' = 0
            /\ firedToday' = 0
  /\ UNCHANGED <<lastSentDateKey, permission, notificationPermission, isInstalled, mounted,
                 permissionTask, lastCheck, bootVars, uiVars, settingVars, envVars,
                 adapterVars, taskVars, lastOp,
                 calcVars>>

\* The page is loaded again: App() starts over from the persisted settings.
Reload ==
  /\ mounted
  /\ mounted' = FALSE
  /\ permissionTask' = FALSE
  /\ notificationPermission' = permission
  /\ isInstalled' = FALSE
  /\ UNCHANGED <<day, slot, lastSentDateKey, permission, firedToday, lastCheck, bootVars,
                 uiVars, settingVars, envVars, adapterVars, taskVars, lastOp,
                 calcVars>>

ReminderInit ==
  /\ AdapterAtRest
  /\ BootAtRest
  /\ locale = "en"
  /\ themePreference = "system"
  /\ reminderEnabled \in BOOLEAN
  /\ reminderTime \in Slots
  /\ day = 0
  /\ slot = 0
  /\ lastSentDateKey = NoKey
  /\ permission \in PermissionStates
  /\ notificationPermission = permission
  /\ isInstalled = FALSE
  /\ mounted = FALSE
  /\ permissionTask = FALSE
  /\ firedToday = 0
  /\ lastCheck = "none"
  /\ CalcAtRest

ReminderNext ==
  \/ \E standalone \in BOOLEAN : Mount(standalone)
  \/ ReminderPoll
  \/ \E checked \in BOOLEAN : HandleReminderEnabledChange(checked)
  \/ \E value \in Slots \cup {NoSlot} : HandleReminderTimeChange(value)
  \/ AppInstalled
  \/ HandleRequestReminderPermission
  \/ \E answer \in PermissionStates : PermissionAnswered(answer)
  \/ \E perm \in {"default", "granted", "denied"} : PermissionChanged(perm)
  \/ ClockAdvances
  \/ Reload

ReminderSpec == ReminderInit /\ [][ReminderNext]_vars

\* ------------------------------------------------------------- rating form
\* The characters the rating input is typed from.
RatingChars == {"0", "1", "5", " ", ".", "-", "a"}
RatingInputs == UNION {[1..n -> RatingChars] : n \in 0..MaxLen}

DecimalDigits == <<"0", "1", "2", "3", "4", "5", "6", "7", "8", "9">>
IsDigit(c) == \E d \in 1..Len(DecimalDigits) : DecimalDigits[d] = c
DigitValue(c) == (CHOOSE d \in 1..Len(DecimalDigits) : DecimalDigits[d] = c) - 1

\* String.prototype.trim, for the white space the input can hold.
RECURSIVE TrimStart(_)
TrimStart(text) ==
  IF text # <<>> /\ Head(text) = " " THEN TrimStart(Tail(text)) ELSE text
RECURSIVE TrimEnd(_)
TrimEnd(text) ==
  IF text # <<>> /\ text[Len(text)] = " "
    THEN TrimEnd(SubSeq(text, 1, Len(text) - 1)) ELSE text
Trim(text) == TrimEnd(TrimStart(text))

\* The value of a run of decimal digits.
RECURSIVE DigitsValue(_)
DigitsValue(digits) ==
  IF digits = <<>> THEN 0
  ELSE 10 * DigitsValue(SubSeq(digits, 1, Len(digits) - 1)) + DigitValue(digits[Len(digits)])

AllDigits(text) == \A i \in 1..Len(text) : IsDigit(text[i])
AllZeros(text) == \A i \in 1..Len(text) : text[i] = "0"

\* Number(text) for a text of digits, ".", "-", white space and letters: NaN,
\* or a sign, an integer part and whether the fraction is zero.  The empty
\* text is 0.
NaN == [nan |-> TRUE, negative |-> FALSE, int |-> 0, fractionIsZero |-> TRUE]
ToNumber(text) ==
  LET trimmed == Trim(text)
      negative == trimmed # <<>> /\ Head(trimmed) = "-"
      body == IF negative THEN Tail(trimmed) ELSE trimmed
      dots == {i \in 1..Len(body) : body[i] = "."}
      dot == IF dots = {} THEN Len(body) + 1 ELSE CHOOSE i \in dots : TRUE
      intPart == SubSeq(body, 1, dot - 1)
      fraction == SubSeq(body, dot + 1, Len(body))
  IN
  IF trimmed = <<>>
    THEN [nan |-> FALSE, negative |-> FALSE, int |-> 0, fractionIsZero |-> TRUE]
  ELSE IF \/ Cardinality(dots) > 1
          \/ ~AllDigits(intPart) \/ ~AllDigits(fraction)
          \/ Len(intPart) + Len(fraction) = 0
    THEN NaN
    ELSE [nan |-> FALSE, negative |-> negative, int |-> DigitsValue(intPart),
          fractionIsZero |-> AllZeros(fraction)]

\* Number.isInteger.
NumberIsInteger(number) == ~number.nan /\ number.fractionIsZero
NumberValue(number) == IF number.negative THEN 0 - number.int ELSE number.int

\* What parseRatingInput returns: null, or the rating.
NullRating == [isNull |-> TRUE, rating |-> 0]
Rating(n) == [isNull |-> FALSE, rating |-> n]

\* parseRatingInput, line 8: the range test.
RatingBelowOneOnly(rating) == rating < 1
RatingOutOfRange(rating) == rating < 1 \/ rating > 10

\* parseRatingInput(rawValue).
ParseRatingInput(rawValue) ==
  LET rating == ToNumber(Trim(rawValue)) IN
  IF ~NumberIsInteger(rating) \/ RatingOutOfRange(NumberValue(rating))
    THEN NullRating
    ELSE Rating(NumberValue(rating))

\* handleSubmitRating: the test of what parseRatingInput returned.
NothingIsInvalid(rating) == FALSE
RatingIsInvalid(rating) == rating.isNull

\* What one keystroke makes of the input's text: a character more, or the
\* last one less.
RatingEdits(text) ==
  {Append(text, c) : c \in IF Len(text) < MaxLen THEN RatingChars ELSE {}}
    \cup (IF text = <<>> THEN {} ELSE {SubSeq(text, 1, Len(text) - 1)})

\* The rating input's onInput: setRatingValue.
SetRatingValue(text) ==
  /\ ratingValue' = text
  /\ UNCHANGED <<formReady, submitPc, appendCalls, persisted, formStatus>>
  /\ UNCHANGED <<envVars, adapterVars, taskVars, lastOp, appVars, weekVars,
                 listVars, insightVars, laterVars>>

\* The adapter behind the form becomes ready, or stops being set and ready.
FormAdapterChanges ==
  /\ formReady' = ~formReady
  /\ UNCHANGED <<ratingValue, submitPc, appendCalls, persisted, formStatus>>
  /\ UNCHANGED <<envVars, adapterVars, taskVars, lastOp, appVars, weekVars,
                 listVars, insightVars, laterVars>>

\* handleSubmitRating up to its await of appendRating.
HandleSubmitRating ==
  /\ ~submitPc.awaiting
  /\ LET rating == ParseRatingInput(ratingValue) IN
     IF ~formReady
       THEN /\ formStatus' = "status.signInFirst"
            /\ UNCHANGED <<submitPc, appendCalls>>
       ELSE IF RatingIsInvalid(rating)
         THEN /\ formStatus' = "status.invalidRating"
              /\ UNCHANGED <<submitPc, appendCalls>>
         ELSE /\ formStatus' = "status.savingRating"
              /\ appendCalls' = appendCalls \cup {rating}
              /\ submitPc' = [awaiting |-> TRUE, rating |-> rating.rating]
  /\ UNCHANGED <<ratingValue, formReady, persisted>>
  /\ UNCHANGED <<envVars, adapterVars, taskVars, lastOp, appVars, weekVars,
                 listVars, insightVars, laterVars>>

\* appendRating resolved: the entry is stored, the input is emptied.
AppendRatingResolves ==
  /\ submitPc.awaiting
  /\ persisted' = persisted \cup {Rating(submitPc.rating)}
  /\ ratingValue' = <<>>
  /\ formStatus' = "status.ratingSaved"
  /\ submitPc' = NoSubmit
  /\ UNCHANGED <<formReady, appendCalls>>
  /\ UNCHANGED <<envVars, adapterVars, taskVars, lastOp, appVars, weekVars,
                 listVars, insightVars, laterVars>>

\* appendRating rejected: the catch block.
AppendRatingRejects ==
  /\ submitPc.awaiting
  /\ formStatus' = "status.ratingSaveFailed"
  /\ submitPc' = NoSubmit
  /\ UNCHANGED <<ratingValue, formReady, appendCalls, persisted>>
  /\ UNCHANGED <<envVars, adapterVars, taskVars, lastOp, appVars, weekVars,
                 listVars, insightVars, laterVars>>

RatingInit ==
  /\ AdapterAtRest
  /\ AppAtRest
  /\ ReminderAtRest
  /\ ratingValue = <<"5">>
  /\ formReady \in BOOLEAN
  /\ submitPc = NoSubmit
  /\ appendCalls = {}
  /\ persisted = {}
  /\ formStatus = "none"
  /\ WeekAtRest
  /\ ListAtRest
  /\ InsightsAtRest
  /\ LaterAtRest

RatingNext ==
  \/ \E text \in RatingEdits(ratingValue) : SetRatingValue(text)
  \/ FormAdapterChanges
  \/ HandleSubmitRating
  \/ AppendRatingResolves
  \/ AppendRatingRejects

RatingSpec == RatingInit /\ [][RatingNext]_vars

\* ------------------------------------------------------------ weekly chart
\* buildLastWeekSeries: the series has WindowDays points.
WindowDays == 7

\* A cell of the sheet: a timestamp cell is missing, unparseable text, or an
\* ISO instant; a rating cell is missing, non-numeric text, or a number.
MissingCell == [text |-> "", value |-> 0]
BadCell == [text |-> "x", value |-> 0]
IsoCell(t) == [text |-> "iso", value |-> t]
NumberCell(n) == [text |-> "number", value |-> n]

\* An instant is a day and a time of day.
Instant(d, s) == d * SlotsPerDay + s

\* startOfDay(date), as the number of the local day.
StartOfDay(t) == t \div SlotsPerDay

\* toDayKey(date): one key per local day.
ToDayKey(d) == d

\* The rows a sheet can hold and the moments the chart is refreshed at.
TimestampCells ==
  {MissingCell, BadCell}
    \cup {IsoCell(Instant(d, 0)) : d \in {1, 2, WindowDays, WindowDays + 1}}
    \cup {IsoCell(Instant(WindowDays, SlotsPerDay - 1))}
RatingCells == {MissingCell, BadCell, NumberCell(1), NumberCell(2)}
SheetRows == [timestamp : TimestampCells, rawRating : RatingCells]
SheetContents == UNION {[1..n -> SheetRows] : n \in 0..MaxRows}
WeekNows == {Instant(WindowDays, SlotsPerDay - 1), Instant(WindowDays + 1, 0)}

\* new Date(timestamp).getTime() is NaN.
DateIsNaN(cell) == cell.text # "iso"
\* !Number.isFinite(Number(rawRating)).
RatingIsFiniteAlways(cell) == FALSE
RatingNotFinite(cell) == cell.text # "number"

\* Math.round(num / den), for num >= 0 and den > 0: halves go up.
MathFloor(num, den) == num \div den
MathRound(num, den) == (2 * num + den) \div (2 * den)

RECURSIVE SumOf(_)
SumOf(values) == IF values = <<>> THEN 0 ELSE Head(values) + SumOf(Tail(values))

\* average(values), in tenths.
Average(values) == MathRound(SumOf(values) * 10, Len(values))

\* The first day of the window: start.setDate(start.getDate() - 6).
WindowStartsWeekAgo(end) == end - WindowDays
WindowStart(end) == end - (WindowDays - 1)

NullValue == [isNull |-> TRUE, tenths |-> 0]
Value(tenths) == [isNull |-> FALSE, tenths |-> tenths]

\* The first loop of buildLastWeekSeries: whether the row is put in a bucket.
RowIsBucketed(row, start, end) ==
  /\ ~(row.timestamp.text = "" \/ row.rawRating.text = "")
  /\ ~(DateIsNaN(row.timestamp) \/ RatingNotFinite(row.rawRating))
  /\ ~(StartOfDay(row.timestamp.value) < start \/ StartOfDay(row.timestamp.value) > end)

\* buckets.get(key): the ratings pushed for the day, in the order of the rows.
RECURSIVE Bucket(_, _, _, _)
Bucket(sheet, key, start, end) ==
  IF sheet = <<>> THEN <<>>
  ELSE LET row == Head(sheet)
           rest == Bucket(Tail(sheet), key, start, end) IN
       IF RowIsBucketed(row, start, end) /\ ToDayKey(StartOfDay(row.timestamp.value)) = key
         THEN <<row.rawRating.value>> \o rest
         ELSE rest

\* buildLastWeekSeries(rows), with new Date() = instant.
BuildLastWeekSeries(sheet, instant) ==
  LET end == StartOfDay(instant)
      start == WindowStart(end) IN
  [i \in 1..WindowDays |->
     LET key == ToDayKey(start + (i - 1))
         values == Bucket(sheet, key, start, end) IN
     [dayKey |-> key,
      value |-> IF Len(values) > 0 THEN Value(Average(values)) ELSE NullValue]]

\* refreshWeeklyChart: the rows read are turned into the chart's points.
RefreshWeeklyChart ==
  /\ chartPoints = <<>>
  /\ chartPoints' = BuildLastWeekSeries(rows, weekNow)
  /\ UNCHANGED <<rows, weekNow, formVars, listVars, insightVars, envVars, adapterVars,
                 taskVars, lastOp, appVars, laterVars>>

WeekInit ==
  /\ AdapterAtRest
  /\ AppAtRest
  /\ ReminderAtRest
  /\ FormAtRest
  /\ rows \in SheetContents
  /\ weekNow \in WeekNows
  /\ chartPoints = <<>>
  /\ ListAtRest
  /\ InsightsAtRest
  /\ LaterAtRest

WeekNext == RefreshWeeklyChart

WeekSpec == WeekInit /\ [][WeekNext]_vars

\* ------------------------------------------------ Google adapter: listRatings
\* A rating cell of blank text, which Number() reads as 0.
BlankCell == [text |-> " ", value |-> 0]

\* The rows of the data sheet and the ranges listRatings is called with.
ListInstants == 0..MaxTime
ListTimestampCells == {MissingCell, BadCell} \cup {IsoCell(t) : t \in ListInstants}
ListRatingCells == {MissingCell, BadCell, BlankCell, NumberCell(4)}
ListRows == [timestamp : ListTimestampCells, rawRating : ListRatingCells]
ListContents == UNION {[1..n -> ListRows] : n \in 0..MaxListRows}
RangeCells == {BadCell, IsoCell(1), IsoCell(2)}
RatingsRanges == [fromIso : RangeCells, toIso : RangeCells]

\* new Date(text).getTime(): NaN, or the instant.
NaNTime == [finite |-> FALSE, time |-> 0]
GetTime(cell) ==
  IF cell.text = "iso" THEN [finite |-> TRUE, time |-> cell.value] ELSE NaNTime

\* Number(row[1]): NaN for a missing cell and for non-numeric text.
CellNumber(cell) ==
  IF cell.text \in {"number", " "} THEN [finite |-> TRUE, value |-> cell.value]
  ELSE [finite |-> FALSE, value |-> 0]

\* listRatings, line 114: the comparison with the range, false for NaN.
RowTimeBeforeTo(rowTime, fromTime, toTime) ==
  /\ rowTime.finite /\ fromTime.finite /\ toTime.finite
  /\ rowTime.time >= fromTime.time /\ rowTime.time < toTime.time
RowTimeInRange(rowTime, fromTime, toTime) ==
  /\ rowTime.finite /\ fromTime.finite /\ toTime.finite
  /\ rowTime.time >= fromTime.time /\ rowTime.time <= toTime.time

\* The map and the two filters of listRatings.
RatingEntry(row) == [timestamp |-> row.timestamp, rating |-> CellNumber(row.rawRating)]
EntryIsListed(entry, ratingsRange) ==
  /\ entry.timestamp.text # "" /\ entry.rating.finite
  /\ RowTimeInRange(GetTime(entry.timestamp), GetTime(ratingsRange.fromIso),
                    GetTime(ratingsRange.toIso))
RECURSIVE FilterRows(_, _)
FilterRows(sheet, ratingsRange) ==
  IF sheet = <<>> THEN <<>>
  ELSE LET entry == RatingEntry(Head(sheet))
           rest == FilterRows(Tail(sheet), ratingsRange) IN
       IF EntryIsListed(entry, ratingsRange) THEN <<entry>> \o rest ELSE rest

\* listRatings(range) resumes with the sheet's values and resolves.
GoogleListRatingsReturns ==
  /\ kind = "google" /\ storageOp = "listRatings"
  /\ storageOp' = "idle"
  /\ listed' = FilterRows(rows, range)
  /\ lastOp' = Settled("listRatings", "resolved")
  /\ UNCHANGED <<envVars, adapterVars, initPc, signIn, openFlows, tokenTask, appVars,
                 formVars, weekVars, insightVars, range, laterVars>>

\* A Google adapter connected by init() from its session cookie, over a
\* sheet, about to be asked for a range.
ListInit ==
  /\ now = 0
  /\ cookie = PersistAuthSession(MaxExpiresIn)
  /\ clientIdSet = TRUE
  /\ kind = "google"
  /\ authState = "connected"
  /\ tokenClient = TRUE
  /\ hasGrantedToken = TRUE
  /\ currentSpreadsheetId = SheetId
  /\ pendingSignIn = FALSE
  /\ gapiToken = TRUE
  /\ ready = FALSE
  /\ initPc = "resolved"
  /\ signIn = "none"
  /\ openFlows = 0
  /\ tokenTask = NoTask
  /\ storageOp = "idle"
  /\ lastOp = InitOp("resolved", FALSE, "restored")
  /\ AppAtRest
  /\ ReminderAtRest
  /\ FormAtRest
  /\ rows \in ListContents
  /\ weekNow = 0
  /\ chartPoints = <<>>
  /\ range \in RatingsRanges
  /\ listed = <<>>
  /\ InsightsAtRest
  /\ LaterAtRest

ListNext ==
  \/ \E op \in {"listRatings"} : GoogleStorageCall(op)
  \/ GoogleListRatingsReturns

ListSpec == ListInit /\ [][ListNext]_vars

\* ------------------------------------------------------- check-in insights
\* The check-ins a refresh can be given: on each day, early or late.
CheckInInstants ==
  {Instant(d, s) : d \in 0..MaxCheckInDay, s \in {0, SlotsPerDay - 1}}

\* The local days that hold at least one check-in.
ActiveDays(entries) == {StartOfDay(t) : t \in entries}

\* The day the streak ends at: today when it has an entry, else yesterday.
StreakEndsToday(active, today) == today
StreakEnd(active, today) == IF today \in active THEN today ELSE today - 1

\* The days with an entry counted back from a day, up to the first gap.
RECURSIVE RunEndingAt(_, _)
RunEndingAt(active, d) ==
  IF d \notin active THEN 0 ELSE 1 + RunEndingAt(active, d - 1)

\* buildCheckInInsights(rows, locale, now).currentStreak.
CurrentStreak(entries, instant) ==
  LET active == ActiveDays(entries) IN
  RunEndingAt(active, StreakEnd(active, StartOfDay(instant)))

\* refreshWordCloud, line 364: the insights are rebuilt from the rows read.
RefreshInsights ==
  /\ ~checkInInsights.refreshed
  /\ checkInInsights' = [refreshed |-> TRUE,
                         currentStreak |-> CurrentStreak(checkIns, insightsNow)]
  /\ UNCHANGED <<checkIns, insightsNow, formVars, weekVars, listVars, envVars, adapterVars,
                 taskVars, lastOp, appVars, laterVars>>

InsightsInit ==
  /\ AdapterAtRest
  /\ AppAtRest
  /\ ReminderAtRest
  /\ FormAtRest
  /\ WeekAtRest
  /\ ListAtRest
  /\ checkIns \in SUBSET CheckInInstants
  /\ insightsNow \in {Instant(d, SlotsPerDay - 1) : d \in (MaxCheckInDay - 1)..MaxCheckInDay}
  /\ checkInInsights = NoInsights
  /\ LaterAtRest

InsightsNext == RefreshInsights

InsightsSpec == InsightsInit /\ [][InsightsNext]_vars

\* --------------------------------------------------------------- word cloud
\* A word is a sequence of characters.
CloudVocabulary ==
  {<<"c", "a">>, <<"C", "a">>, <<"t", "i">>, <<"o", "f">>, <<"c">>}
CloudWordLists == UNION {[1..n -> CloudVocabulary] : n \in 0..MaxCloudWords}

\* The ways to cut a list of words into the words of k entries, in order.
CloudCuts(words, k) ==
  {cuts \in [0..k -> 0..Len(words)] :
     /\ cuts[0] = 0 /\ cuts[k] = Len(words)
     /\ \A i \in 1..k : cuts[i - 1] <= cuts[i]}
CloudEntries(words, cuts, k) ==
  [i \in 1..k |-> [words |-> SubSeq(words, cuts[i - 1] + 1, cuts[i])]]

\* Case folding, for the letters of the vocabulary.
ToLowerCase(word) ==
  [i \in 1..Len(word) |->
     IF word[i] = "C" THEN "c" ELSE IF word[i] = "T" THEN "t" ELSE word[i]]

\* The filter on a folded word: long enough and no stop word.
MinWordLength == 2
StopWords == {<<"o", "f">>}
WordIsRetained(word) == Len(word) >= MinWordLength /\ word \notin StopWords

\* The folded, retained words of the entries, in the order they are read.
RECURSIVE EntryTokens(_)
EntryTokens(words) ==
  IF words = <<>> THEN <<>>
  ELSE LET word == ToLowerCase(Head(words)) IN
       (IF WordIsRetained(word) THEN <<word>> ELSE <<>>) \o EntryTokens(Tail(words))
RECURSIVE CloudTokens(_)
CloudTokens(entries) ==
  IF entries = <<>> THEN <<>>
  ELSE EntryTokens(Head(entries).words) \o CloudTokens(Tail(entries))

\* The frequency counts, kept in the order the words are first seen: what an
\* occurrence adds to the count of its word.
OccurrenceIsNotAdded(counts, i, word) == counts[i].score
OccurrenceAdds(counts, i, word) == counts[i].score + 1

RECURSIVE Accumulate(_, _)
Accumulate(counts, tokens) ==
  IF tokens = <<>> THEN counts
  ELSE LET word == Head(tokens)
           seen == {i \in 1..Len(counts) : counts[i].word = word} IN
       Accumulate(
         IF seen = {}
           THEN Append(counts, [word |-> word, score |-> 1])
           ELSE [i \in 1..Len(counts) |->
                   IF i \in seen
                     THEN [word |-> word, score |-> OccurrenceAdds(counts, i, word)]
                     ELSE counts[i]],
         Tail(tokens))

\* The stable sort by descending score: an entry goes behind every entry
\* whose score is not smaller.
InsertByScore(sorted, entry) ==
  LET ahead == {i \in 1..Len(sorted) : sorted[i].score >= entry.score}
      k == Cardinality(ahead) IN
  SubSeq(sorted, 1, k) \o <<entry>> \o SubSeq(sorted, k + 1, Len(sorted))
RECURSIVE SortByScore(_)
SortByScore(counts) ==
  IF counts = <<>> THEN <<>>
  ELSE InsertByScore(SortByScore(SubSeq(counts, 1, Len(counts) - 1)), counts[Len(counts)])

\* buildWordCloud(rows, locale).
BuildWordCloud(entries) == SortByScore(Accumulate(<<>>, CloudTokens(entries)))

\* refreshWordCloud, line 363: the cloud is rebuilt from the rows read.
RefreshWordCloud ==
  /\ ~cloudWords.refreshed
  /\ cloudWords' = [refreshed |-> TRUE, words |-> BuildWordCloud(cloudRows)]
  /\ UNCHANGED <<cloudRows, restOfCloud>>

CloudInit ==
  /\ AdapterAtRest
  /\ AppAtRest
  /\ ReminderAtRest
  /\ FormAtRest
  /\ WeekAtRest
  /\ ListAtRest
  /\ InsightsAtRest
  /\ \E words \in CloudWordLists : \E k \in 0..MaxCloudEntries :
       \E cuts \in CloudCuts(words, k) : cloudRows = CloudEntries(words, cuts, k)
  /\ cloudWords = NoCloud
  /\ StoreAtRest
  /\ FactoryAtRest
  /\ LocalAtRest
  /\ WaitAtRest
  /\ ProvAtRest
  /\ TailAtRest

CloudNext == RefreshWordCloud

CloudSpec == CloudInit /\ [][CloudNext]_vars

\* ---------------------------------------------------------- remote settings
\* The keys of buildSettingsPayload, and a key the application does not know.
SettingsKeys ==
  {"locale", "theme_preference", "reminder_enabled", "reminder_time", "storage_backend"}
UnknownKey == "other"

\* saveSettings(blob): every key of the blob is written, every other stored
\* key stays.
SaveSettingsReplacesAll(store, blob) == blob
SaveSettings(store, blob) ==
  [k \in (DOMAIN store) \cup (DOMAIN blob) |-> IF k \in DOMAIN blob THEN blob[k] ELSE store[k]]

\* loadSettings(): the blob as stored, the empty mapping when nothing is.
LoadSettings(store) == store

\* buildSettingsPayload(), with no storageBackendOverride.
BuildSettingsPayload ==
  [k \in SettingsKeys |->
     CASE k = "locale" -> locale
       [] k = "theme_preference" -> themePreference
       [] k = "reminder_enabled" -> (IF reminderEnabled THEN "1" ELSE "0")
       [] k = "reminder_time" -> ToString(reminderTime)
       [] k = "storage_backend" -> selectedBackend]

\* persistSettingsToAdapter(): nothing is saved for an adapter without
\* saveSettings or one that is not ready (isApplyingRemoteSettings is false
\* between tasks).
PersistSettingsToAdapter(hasSaveSettings, adapterReady) ==
  /\ IF ~hasSaveSettings \/ ~adapterReady
       THEN /\ lastSettingsOp' = [op |-> "skipped", blob |-> EmptyBlob]
            /\ settingsStore' = settingsStore
       ELSE /\ lastSettingsOp' = [op |-> "save", blob |-> BuildSettingsPayload]
            /\ settingsStore' = SaveSettings(settingsStore, BuildSettingsPayload)
  /\ UNCHANGED <<appVars, restOfStore>>

\* The blobs another client of the backend saves.
ForeignBlobs ==
  {EmptyBlob}
    \cup {[k \in {UnknownKey} |-> v] : v \in {"x", "y"}}
    \cup {[k \in {"locale", UnknownKey} |-> IF k = "locale" THEN l ELSE "x"] : l \in Locales}

\* adapter.saveSettings(blob).
SaveSettingsCall(blob) ==
  /\ lastSettingsOp' = [op |-> "save", blob |-> blob]
  /\ settingsStore' = SaveSettings(settingsStore, blob)
  /\ UNCHANGED <<appVars, restOfStore>>

\* adapter.loadSettings().
LoadSettingsCall ==
  /\ lastSettingsOp' = [op |-> "load", blob |-> LoadSettings(settingsStore)]
  /\ settingsStore' = settingsStore
  /\ UNCHANGED <<appVars, restOfStore>>

\* adapter.saveSettings(loaded), before anything else is saved.
SaveLoadedSettings ==
  /\ lastSettingsOp.op = "load"
  /\ lastSettingsOp' = [op |-> "saveLoaded", blob |-> lastSettingsOp.blob]
  /\ settingsStore' = SaveSettings(settingsStore, lastSettingsOp.blob)
  /\ UNCHANGED <<appVars, restOfStore>>

\* nextThemePreference(preference).
NextThemePreferenceSwaps(preference) ==
  IF preference = "light" THEN "dark" ELSE "light"
NextThemePreference(preference) ==
  IF preference = "light" THEN "dark"
  ELSE IF preference = "dark" THEN "system"
  ELSE "light"

\* The preference held is replaced by nextThemePreference of it.
ApplyNextThemePreference ==
  /\ themePreference' = NextThemePreference(themePreference)
  /\ UNCHANGED <<bootVars, uiVars, locale, reminderEnabled, reminderTime, reminderVars,
                 storeVars, restOfStore>>

\* The settings panel of an installed, mounted application over a backend
\* that may hold settings already.
InitialStores ==
  {EmptyBlob, [k \in {UnknownKey} |-> "x"],
   [k \in SettingsKeys |->
      CASE k = "locale" -> "pl"
        [] k = "theme_preference" -> "dark"
        [] k = "reminder_enabled" -> "1"
        [] k = "reminder_time" -> "0"
        [] k = "storage_backend" -> "local_api"]}
SettingsInit ==
  /\ AdapterAtRest
  /\ BootAtRest
  /\ locale \in Locales
  /\ themePreference = "system"
  /\ reminderEnabled = FALSE
  /\ reminderTime = DefaultReminderTime
  /\ day = 0
  /\ slot = 0
  /\ lastSentDateKey = NoKey
  /\ permission = "default"
  /\ notificationPermission = "default"
  /\ isInstalled = TRUE
  /\ mounted = TRUE
  /\ permissionTask = FALSE
  /\ firedToday = 0
  /\ lastCheck = "none"
  /\ FormAtRest
  /\ WeekAtRest
  /\ ListAtRest
  /\ InsightsAtRest
  /\ CloudAtRest
  /\ settingsStore \in InitialStores
  /\ lastSettingsOp = NoSettingsOp
  /\ FactoryAtRest
  /\ LocalAtRest
  /\ WaitAtRest
  /\ ProvAtRest
  /\ TailAtRest

SettingsNext ==
  \/ \E checked \in BOOLEAN : HandleReminderEnabledChange(checked)
  \/ \E value \in Slots \cup {NoSlot} : HandleReminderTimeChange(value)
  \/ ApplyNextThemePreference
  \/ \E hasSaveSettings, adapterReady \in BOOLEAN :
        PersistSettingsToAdapter(hasSaveSettings, adapterReady)
  \/ \E blob \in ForeignBlobs : SaveSettingsCall(blob)
  \/ LoadSettingsCall
  \/ SaveLoadedSettings

SettingsSpec == SettingsInit /\ [][SettingsNext]_vars

\* ---------------------------------------------------------- adapter factory
\* What VITE_DATA_BACKEND can hold: a backend's name, other text, nothing.
BackendValues == {"local_api", "google", "LOCAL_API", "", Undefined}

\* resolveDataBackend(value).
ResolveDataBackendDefaultsToLocal(value) ==
  IF value = "google" THEN "google" ELSE "local_api"
ResolveDataBackend(value) ==
  IF value = "local_api" THEN "local_api" ELSE "google"

\* createAdapter(backend?): the backend given, or else the configured one.
CreateAdapterOrDefault(backend) ==
  LET selected == IF backend = Undefined THEN ResolveDataBackend(envBackend) ELSE backend IN
  /\ NewAdapter(selected)
  /\ requested' = backend
  /\ UNCHANGED <<envVars, envBackend, restOfFactory>>

\* A page whose first adapter came from createAdapter().
FactoryInit ==
  /\ now = 0
  /\ cookie \in InitialCookies
  /\ clientIdSet \in BOOLEAN
  /\ envBackend \in BackendValues
  /\ requested = Undefined
  /\ kind = ResolveDataBackend(envBackend)
  /\ authState = "initializing"
  /\ tokenClient = FALSE
  /\ hasGrantedToken = FALSE
  /\ currentSpreadsheetId = NoId
  /\ pendingSignIn = FALSE
  /\ gapiToken = FALSE
  /\ ready = FALSE
  /\ initPc = "idle"
  /\ signIn = "none"
  /\ openFlows = 0
  /\ tokenTask = NoTask
  /\ storageOp = "idle"
  /\ lastOp = Op("createAdapter", "none", FALSE)
  /\ AppAtRest
  /\ ReminderAtRest
  /\ FormAtRest
  /\ WeekAtRest
  /\ ListAtRest
  /\ InsightsAtRest
  /\ CloudAtRest
  /\ StoreAtRest
  /\ LocalAtRest
  /\ WaitAtRest
  /\ ProvAtRest
  /\ TailAtRest

FactoryNext ==
  \/ \E backend \in DataBackends \cup {Undefined} : CreateAdapterOrDefault(backend)
  \/ GoogleInit
  \/ GoogleInitScriptsFail
  \/ GoogleInitScriptsLoaded
  \/ GoogleRestoreSucceeds
  \/ GoogleRestoreFails
  \/ GoogleRequestSignIn
  \/ GoogleErrorCallback
  \/ \E response \in TokenResponses : GoogleTokenCallback(response)
  \/ GoogleTokenProvisioned
  \/ GoogleTokenProvisionFails
  \/ LocalInit
  \/ LocalHealthOk
  \/ LocalHealthFails
  \/ Tick

FactorySpec == FactoryInit /\ [][FactoryNext]_vars

\* ------------------------------------------- local API adapter: its requests
\* The entries appended, the ranges listed, and the bodies the API answers a
\* list request with: an items array, or no items field.
NoEntry == [timestamp |-> MissingCell, rating |-> 0]
LocalEntries == {[timestamp |-> IsoCell(1), rating |-> 7], [timestamp |-> IsoCell(2), rating |-> 3]}
LocalRanges ==
  {[fromIso |-> IsoCell(1), toIso |-> IsoCell(2)], [fromIso |-> IsoCell(2), toIso |-> IsoCell(2)]}
NoRange == [fromIso |-> MissingCell, toIso |-> MissingCell]
LocalPayloads ==
  {NoPayload}
    \cup {[hasItems |-> TRUE, items |-> items] :
            items \in UNION {[1..n -> LocalEntries] : n \in 0..2}}

\* A call of fetch: the method, the path under baseUrl, the query and the body.
Request(method, path, query, body) ==
  [method |-> method, path |-> path, query |-> query, body |-> body]
HealthRequest == Request("GET", "/api/health", NoRange, NoEntry)

\* The fetch calls of appendRating(entry) and of listRatings(range).
FetchesAfterHealth(op, entry, ratingsRange) ==
  <<HealthRequest,
    IF op = "appendRating"
      THEN Request("POST", "/api/ratings", NoRange, entry)
      ELSE Request("GET", "/api/ratings", ratingsRange, NoEntry)>>
Fetches(op, entry, ratingsRange) ==
  IF op = "appendRating"
    THEN <<Request("POST", "/api/ratings", NoRange, entry)>>
    ELSE <<Request("GET", "/api/ratings", ratingsRange, NoEntry)>>

\* init() up to its await of fetch.
LocalInitFetches ==
  /\ kind = "local_api" /\ initPc # "loading"
  /\ Len(fetchLog) < MaxFetches
  /\ fetchLog' = Append(fetchLog, HealthRequest)
  /\ initPc' = "loading"
  /\ lastOp' = InitOp("pending", TRUE, "-")
  /\ UNCHANGED <<envVars, adapterVars, signIn, openFlows, tokenTask, storageOp, healthLog,
                 localResponse, localListed, restOfLocal>>

\* appendRating(entry) / listRatings(range): assertReady, then up to the
\* await of fetch.
LocalStorageFetches(op, entry, ratingsRange) ==
  /\ kind = "local_api"
  /\ IF LocalNotReady
       THEN /\ lastOp' = Op(op, "rejected", FALSE)
            /\ UNCHANGED <<storageOp, fetchLog>>
       ELSE /\ storageOp = "idle"
            /\ Len(fetchLog) < MaxFetches
            /\ storageOp' = op
            /\ fetchLog' = fetchLog \o Fetches(op, entry, ratingsRange)
            /\ lastOp' = Op(op, "pending", TRUE)
  /\ UNCHANGED <<envVars, adapterVars, initPc, signIn, openFlows, tokenTask, healthLog,
                 localResponse, localListed, restOfLocal>>

\* listRatings, line 56: payload.items ?? [].
ItemsOf(payload) == IF payload.hasItems THEN payload.items ELSE <<>>

\* listRatings resumes with an ok response and its body.
LocalListRatingsReturns(payload) ==
  /\ kind = "local_api" /\ storageOp = "listRatings"
  /\ storageOp' = "idle"
  /\ localResponse' = payload
  /\ localListed' = ItemsOf(payload)
  /\ lastOp' = Settled("listRatings", "resolved")
  /\ UNCHANGED <<envVars, adapterVars, initPc, signIn, openFlows, tokenTask, fetchLog,
                 healthLog, restOfLocal>>

\* The answers a health request can get: an ok response, a response that is
\* not ok, or no response (fetch rejects).
HealthReplies == {"ok", "notOk", "failed"}

\* init(), lines 17-20: the await throws when fetch rejects, and a response
\* that is not ok is thrown on.
InitRejectsOnlyWithoutResponse(reply) == reply = "failed"
InitRejects(reply) == reply # "ok"

\* init() resumes with the answer to its health request.
LocalHealthReplies(reply) ==
  /\ kind = "local_api" /\ initPc = "loading"
  /\ healthLog' = Append(healthLog, reply)
  /\ IF InitRejects(reply)
       THEN /\ initPc' = "rejected"
            /\ lastOp' = InitOp("rejected", FALSE, "-")
            /\ UNCHANGED <<ready, authState>>
       ELSE /\ ready' = TRUE
            /\ authState' = "connected"
            /\ initPc' = "resolved"
            /\ lastOp' = InitOp("resolved", FALSE, "-")
  /\ UNCHANGED <<envVars, kind, tokenClient, hasGrantedToken, currentSpreadsheetId,
                 pendingSignIn, gapiToken, signIn, openFlows, tokenTask, storageOp, fetchLog,
                 localResponse, localListed, restOfLocal>>

\* A local API adapter as the constructor leaves it.
LocalApiInit ==
  /\ now = 0
  /\ cookie = NoCookie
  /\ clientIdSet = TRUE
  /\ kind = "local_api"
  /\ authState = "initializing"
  /\ tokenClient = FALSE
  /\ hasGrantedToken = FALSE
  /\ currentSpreadsheetId = NoId
  /\ pendingSignIn = FALSE
  /\ gapiToken = FALSE
  /\ ready = FALSE
  /\ initPc = "idle"
  /\ signIn = "none"
  /\ openFlows = 0
  /\ tokenTask = NoTask
  /\ storageOp = "idle"
  /\ lastOp = Op("createAdapter", "none", FALSE)
  /\ AppAtRest
  /\ ReminderAtRest
  /\ FormAtRest
  /\ WeekAtRest
  /\ ListAtRest
  /\ InsightsAtRest
  /\ CloudAtRest
  /\ StoreAtRest
  /\ FactoryAtRest
  /\ LocalAtRest
  /\ WaitAtRest
  /\ ProvAtRest
  /\ TailAtRest

LocalApiNext ==
  \/ LocalInitFetches
  \/ \E reply \in HealthReplies : LocalHealthReplies(reply)
  \/ \E op \in StorageOps : \E entry \in LocalEntries : \E ratingsRange \in LocalRanges :
        LocalStorageFetches(op, entry, ratingsRange)
  \/ (storageOp = "appendRating" /\ StorageSucceeds)
  \/ StorageFails
  \/ \E payload \in LocalPayloads : LocalListRatingsReturns(payload)

LocalApiSpec == LocalApiInit /\ [][LocalApiNext]_vars

\* ------------------------------------- Google adapter: waiting for the scripts
\* waitFor, lines 318 and 332: the bound and the polling interval, in ms.
TimeoutMs == 15000
PollMs == 50
\* The clock is followed until the first poll that must see the timeout.
LastPollMs == TimeoutMs + PollMs

\* waitFor, line 327: Date.now() - started > timeoutMs.
NeverTimedOut(elapsed) == FALSE
TimedOut(elapsed) == elapsed > TimeoutMs

\* tick(): what a poll makes of the wait.
TickOutcome(loaded, elapsed) ==
  IF loaded THEN "resolved"
  ELSE IF TimedOut(elapsed) THEN "rejected"
  ELSE "polling"

\* The page loads one of the external scripts.
ScriptLoads(w) ==
  /\ ~scriptLoaded[w]
  /\ scriptLoaded' = [scriptLoaded EXCEPT ![w] = TRUE]
  /\ UNCHANGED <<envVars, adapterVars, taskVars, lastOp, waitClock, waitPc, timerDue,
                 scriptsPc, restOfWait>>

\* init() up to its first await: the client id check, then waitForGoogle()
\* and waitForGapi(), each with its first tick().
GoogleInitWaits ==
  /\ kind = "google" /\ initPc = "idle"
  /\ IF ~clientIdSet
       THEN /\ authState' = "needs_login"
            /\ initPc' = "rejected"
            /\ lastOp' = InitOp("rejected", FALSE, "-")
            /\ UNCHANGED <<waitPc, scriptsPc>>
       ELSE /\ authState' = authState
            /\ initPc' = "loading"
            /\ lastOp' = InitOp("pending", TRUE, "-")
            /\ waitPc' = [w \in Scripts |-> TickOutcome(scriptLoaded[w], 0)]
            /\ scriptsPc' = "pending"
  /\ timerDue' = [w \in Scripts |-> FALSE]
  /\ UNCHANGED <<envVars, kind, tokenClient, hasGrantedToken, currentSpreadsheetId,
                 pendingSignIn, gapiToken, ready, signIn, openFlows, tokenTask, storageOp,
                 waitClock, scriptLoaded, restOfWait>>

\* 50 ms pass while a wait is polling: its timer is due.
PollIntervalPasses ==
  /\ \E w \in Scripts : waitPc[w] = "polling"
  /\ waitClock < LastPollMs
  /\ waitClock' = waitClock + PollMs
  /\ timerDue' = [w \in Scripts |-> waitPc[w] = "polling"]
  /\ UNCHANGED <<envVars, adapterVars, taskVars, lastOp, scriptLoaded, waitPc, scriptsPc,
                 restOfWait>>

\* The timer of a wait fires: tick().
WaitTick(w) ==
  /\ waitPc[w] = "polling" /\ timerDue[w]
  /\ waitPc' = [waitPc EXCEPT ![w] = TickOutcome(scriptLoaded[w], waitClock)]
  /\ timerDue' = [timerDue EXCEPT ![w] = FALSE]
  /\ UNCHANGED <<envVars, adapterVars, taskVars, lastOp, waitClock, scriptLoaded, scriptsPc,
                 restOfWait>>

\* init(), line 51: Promise.all rejects with the first wait that rejects, and
\* init() with it.
GoogleInitWaitRejected ==
  /\ kind = "google" /\ initPc = "loading" /\ scriptsPc = "pending"
  /\ \E w \in Scripts : waitPc[w] = "rejected"
  /\ scriptsPc' = "rejected"
  /\ initPc' = "rejected"
  /\ lastOp' = InitOp("rejected", FALSE, "-")
  /\ UNCHANGED <<envVars, adapterVars, signIn, openFlows, tokenTask, storageOp, waitClock,
                 scriptLoaded, waitPc, timerDue, restOfWait>>

\* init(), lines 51-52: both waits have resolved; loadGoogleApis is called.
GoogleInitWaitsResolved ==
  /\ kind = "google" /\ initPc = "loading" /\ scriptsPc = "pending"
  /\ \A w \in Scripts : waitPc[w] = "resolved"
  /\ scriptsPc' = "resolved"
  /\ lastOp' = InitOp("pending", TRUE, "-")
  /\ UNCHANGED <<envVars, adapterVars, taskVars, waitClock, scriptLoaded, waitPc, timerDue,
                 restOfWait>>

\* A Google adapter as the constructor leaves it, on a page whose scripts
\* have not loaded yet.
WaitInit ==
  /\ now = 0
  /\ cookie = NoCookie
  /\ clientIdSet \in BOOLEAN
  /\ kind = "google"
  /\ authState = "initializing"
  /\ tokenClient = FALSE
  /\ hasGrantedToken = FALSE
  /\ currentSpreadsheetId = NoId
  /\ pendingSignIn = FALSE
  /\ gapiToken = FALSE
  /\ ready = FALSE
  /\ initPc = "idle"
  /\ signIn = "none"
  /\ openFlows = 0
  /\ tokenTask = NoTask
  /\ storageOp = "idle"
  /\ lastOp = Op("createAdapter", "none", FALSE)
  /\ AppAtRest
  /\ ReminderAtRest
  /\ FormAtRest
  /\ WeekAtRest
  /\ ListAtRest
  /\ InsightsAtRest
  /\ LaterAtRest

WaitNext ==
  \/ \E w \in Scripts : ScriptLoads(w)
  \/ GoogleInitWaits
  \/ PollIntervalPasses
  \/ \E w \in Scripts : WaitTick(w)
  \/ GoogleInitWaitRejected
  \/ GoogleInitWaitsResolved
  \/ (scriptsPc = "resolved" /\ GoogleInitScriptsLoaded)
  \/ (scriptsPc = "resolved" /\ GoogleInitScriptsFail)

\* The event loop runs a due timer and a settled promise's continuation, and
\* time passes.
WaitSpec ==
  /\ WaitInit
  /\ [][WaitNext]_vars
  /\ WF_vars(PollIntervalPasses)
  /\ \A w \in Scripts : WF_vars(WaitTick(w))
  /\ WF_vars(GoogleInitWaitRejected)
  /\ WF_vars(GoogleInitWaitsResolved)

\* ------------------------------------ Google adapter: ensureSpreadsheet's steps
\* DATA_SHEET_TITLE and CONFIG_SHEET_TITLE, lines 21-22.
RequiredSheets == {"data", "config"}

\* The spreadsheets named SHEET_TITLE the user's Drive can hold at the start:
\* none, or one with any of the two sheets and any row 1 on its data sheet.
Headers == {"none", "headers", "other"}
InitialFiles ==
  {NoFile} \cup
  {file \in [exists : {TRUE}, sheets : SUBSET RequiredSheets, header : Headers] :
     file.header = "none" \/ "data" \in file.sheets}

\* findSpreadsheetIdByName: the oldest file of that name, or null.
NoFileFound(files) == NoId
FirstFile(files) ==
  IF files[SheetId].exists THEN SheetId
  ELSE IF files[OtherSheetId].exists THEN OtherSheetId
  ELSE NoId

\* The id spreadsheets.create gives the new file.
FreeId(files) == IF files[SheetId].exists THEN OtherSheetId ELSE SheetId

\* ensureRequiredSheets, lines 393-399: the titles to add.
MissingSheets(sheets) == RequiredSheets \ sheets

\* ensureHeaders, line 363: row[0] === "timestamp" && row[1] === "rating".
HasHeaders(header) == header = "headers"

\* What a run makes of the reply to the request it awaits: the request it
\* awaits next ("returned" and "threw" end it), the Drive after the request,
\* the id it holds and the titles it is to add. A reply "error" is a request
\* that failed; "noId" is a create response without a spreadsheetId.
RunAt(pc, files, id, add) == [pc |-> pc, drive |-> files, id |-> id, add |-> add]
EnsureSpreadsheetStep(pc, reply, files, id, add) ==
  IF reply = "error" THEN RunAt("threw", files, id, add)
  ELSE CASE pc = "find" ->
              IF FirstFile(files) # NoId
                THEN RunAt("sheetsGet", files, FirstFile(files), add)
                ELSE RunAt("create", files, id, add)
         [] pc = "sheetsGet" ->
              IF MissingSheets(files[id].sheets) = {}
                THEN RunAt("headersGet", files, id, add)
                ELSE RunAt("batchUpdate", files, id, MissingSheets(files[id].sheets))
         [] pc = "batchUpdate" ->
              IF add \cap files[id].sheets # {}
                THEN RunAt("threw", files, id, add)
                ELSE RunAt("headersGet",
                           [files EXCEPT ![id].sheets = @ \cup add], id, add)
         [] pc = "create" ->
              LET created == [files EXCEPT ![FreeId(files)] =
                                [exists |-> TRUE, sheets |-> RequiredSheets, header |-> "none"]]
              IN IF reply = "noId"
                   THEN RunAt("threw", created, id, add)
                   ELSE RunAt("headersGet", created, FreeId(files), add)
         [] pc = "headersGet" ->
              IF "data" \notin files[id].sheets THEN RunAt("threw", files, id, add)
              ELSE IF HasHeaders(files[id].header) THEN RunAt("returned", files, id, add)
              ELSE RunAt("headersUpdate", files, id, add)
         [] pc = "headersUpdate" ->
              IF "data" \notin files[id].sheets THEN RunAt("threw", files, id, add)
              ELSE RunAt("returned", [files EXCEPT ![id].header = "headers"], id, add)

\* The task whose ensureSpreadsheet is awaited: init()'s restore, or
\* handleTokenResponse.
RunActive(k) == IF k = "restore" THEN initPc = "restoring" ELSE tokenTask.active

Replies == {"ok", "error", "noId"}

\* The reply to the request a run awaits arrives: ensureSpreadsheet up to its
\* next await, or to its end and then through the rest of its caller.
ProvisionReply(k, reply) ==
  /\ kind = "google" /\ RunActive(k)
  /\ reply = "noId" => provPc[k] = "create"
  /\ (provPc[k] = "create" /\ reply # "error") => ~drive[FreeId(drive)].exists
  /\ LET run == EnsureSpreadsheetStep(provPc[k], reply, drive, provId[k], provAdd[k])
         ended == run.pc \in {"returned", "threw"}
     IN /\ drive' = run.drive
        /\ provPc' = [provPc EXCEPT ![k] = IF ended THEN "find" ELSE run.pc]
        /\ provId' = [provId EXCEPT ![k] = IF ended THEN NoId ELSE run.id]
        /\ provAdd' = [provAdd EXCEPT ![k] = IF ended THEN {} ELSE run.add]
        /\ lastRun' = IF ended THEN run.pc ELSE lastRun
        /\ CASE run.pc = "returned" /\ k = "restore" -> RestoreResolves(run.id)
             [] run.pc = "returned" /\ k = "token" -> TokenResolves(run.id)
             [] run.pc = "threw" /\ k = "restore" -> RestoreRejects
             [] run.pc = "threw" /\ k = "token" -> TokenRejects
             [] OTHER -> /\ lastOp' = Op("ensureSpreadsheet", "pending", TRUE)
                         /\ UNCHANGED <<envVars, adapterVars, taskVars>>
  /\ UNCHANGED restOfProv

\* A Google adapter as the constructor leaves it, with or without a persisted
\* session, and the user's Drive.
ProvisionInit ==
  /\ now = 0
  /\ cookie \in {NoCookie, PersistAuthSession(1)}
  /\ clientIdSet = TRUE
  /\ kind = "google"
  /\ authState = "initializing"
  /\ tokenClient = FALSE
  /\ hasGrantedToken = FALSE
  /\ currentSpreadsheetId = NoId
  /\ pendingSignIn = FALSE
  /\ gapiToken = FALSE
  /\ ready = FALSE
  /\ initPc = "idle"
  /\ signIn = "none"
  /\ openFlows = 0
  /\ tokenTask = NoTask
  /\ storageOp = "idle"
  /\ lastOp = Op("createAdapter", "none", FALSE)
  /\ AppAtRest
  /\ ReminderAtRest
  /\ FormAtRest
  /\ WeekAtRest
  /\ ListAtRest
  /\ InsightsAtRest
  /\ CloudAtRest
  /\ StoreAtRest
  /\ FactoryAtRest
  /\ LocalAtRest
  /\ WaitAtRest
  /\ TailAtRest
  /\ drive \in [SheetIds -> InitialFiles]
  /\ drive[OtherSheetId] = NoFile
  /\ provPc = [k \in Tasks |-> "find"]
  /\ provId = [k \in Tasks |-> NoId]
  /\ provAdd = [k \in Tasks |-> {}]
  /\ lastRun = "none"

ProvisionNext ==
  \/ GoogleInit
  \/ GoogleInitScriptsFail
  \/ GoogleInitScriptsLoaded
  \/ GoogleRequestSignIn
  \/ GoogleErrorCallback
  \/ \E response \in {r \in TokenResponses : r.expires_in = 1} : GoogleTokenCallback(response)
  \/ \E k \in Tasks : \E reply \in Replies : ProvisionReply(k, reply)

ProvisionSpec == ProvisionInit /\ [][ProvisionNext]_vars

\* ------------------------------------------------------- the sign-in button
\* The adapter of boot s answers isReady() with true: in the flows of the
\* app it does so exactly once it has reached connected.
AdapterIsReady(s) == boots[s].authState = "connected"

\* handleSignIn up to its await of requestSignIn(): the button is enabled
\* (line 1082: not isReady() and signInEnabled()), the adapter is the current
\* one and has a requestSignIn. Each adapter is followed for one sign-in.
HandleSignIn ==
  /\ mounted /\ signInEnabled /\ ~isReady
  /\ boots[adapter].backend = "google"
  /\ signInTask[adapter] = "none"
  /\ signInTask' = [signInTask EXCEPT ![adapter] = "pending"]
  /\ boots' = [boots EXCEPT ![adapter].authState = "initializing"]
  /\ toasts' = toasts \cup {Toast("status.openingGoogleLogin", FALSE)}
  /\ nextToastId' = nextToastId + 1
  /\ UNCHANGED <<selectedBackend, bootSequence, adapter, isReady, signInEnabled, settingVars,
                 reminderVars, envVars, adapterVars, taskVars, lastOp, instances, checkInForm, restOfTail>>

\* handleSignIn resumes after await currentAdapter.requestSignIn(), which
\* resolved (lines 732-733) or rejected (the catch): currentAdapter is the
\* adapter the handler read before the await.
SignInSettles(s, resolved) ==
  /\ signInTask[s] = "pending"
  /\ signInTask' = [signInTask EXCEPT ![s] = IF resolved THEN "resolved" ELSE "rejected"]
  /\ boots' = [boots EXCEPT ![s].authState = IF resolved THEN "connected" ELSE "needs_login"]
  /\ IF resolved
       THEN /\ isReady' = TRUE
            /\ signInEnabled' = FALSE
            /\ toasts' = toasts \cup {Toast("status.connected", FALSE)}
       ELSE /\ toasts' = toasts \cup {Toast("status.authRejected", TRUE)}
            /\ UNCHANGED <<isReady, signInEnabled>>
  /\ nextToastId' = nextToastId + 1
  /\ UNCHANGED <<selectedBackend, bootSequence, adapter, settingVars, reminderVars, envVars,
                 adapterVars, taskVars, lastOp, instances, checkInForm, restOfTail>>

UiNext ==
  \/ \E backend \in DataBackends : HandleBackendSelection(backend)
  \/ \E nextLocale \in Locales : SyncLocale(nextLocale)
  \/ \E s \in 1..MaxBoots : \E outcome \in InitOutcomes(boots[s].backend) :
        BootInitSettles(s, outcome)
  \/ \E s \in 1..MaxBoots : \E blob \in SettingsBlobs : BootSettingsLoaded(s, blob)
  \/ \E s \in 1..MaxBoots : BootSettingsLoadFails(s)
  \/ \E s \in 1..MaxBoots : BootSettingsSaved(s)
  \/ \E toast \in toasts : DismissToast(toast)
  \/ HandleSignIn
  \/ \E s \in 1..MaxBoots : \E resolved \in BOOLEAN : SignInSettles(s, resolved)

UiSpec == BootInit /\ [][UiNext]_vars

\* ------------------------------------------- Google adapter: sign-in, fairly
\* One Google adapter, with the replies to ensureSpreadsheet's requests
\* arriving in the end.
SignInInit == Init /\ kind = "google"

SignInNext ==
  \/ GoogleInit
  \/ GoogleInitScriptsFail
  \/ GoogleInitScriptsLoaded
  \/ GoogleRestoreSucceeds
  \/ GoogleRestoreFails
  \/ GoogleRequestSignIn
  \/ GoogleErrorCallback
  \/ \E response \in TokenResponses : GoogleTokenCallback(response)
  \/ GoogleTokenProvisioned
  \/ GoogleTokenProvisionFails
  \/ Tick
  \/ CookieExpires

SignInSpec ==
  /\ SignInInit
  /\ [][SignInNext]_vars
  /\ WF_vars(GoogleTokenProvisioned \/ GoogleTokenProvisionFails)

\* --------------------------------- several Google adapters, one Drive account
\* The adapters the App creates side by side (the active one, the draft
\* adapters of the gate and of the settings): each has its own fields, all
\* share the session cookie and the user's Drive.

\* init() with a session in the cookie that has not expired:
\* restoreSessionFromCookie up to ensureSpreadsheet's first await.
InstanceRestores(a) ==
  /\ instances[a].task = "none"
  /\ ReadAuthSession(cookie).kind = "session"
  /\ ~SessionExpired(ReadAuthSession(cookie), now)
  /\ instances' = [instances EXCEPT ![a].task = "restore", ![a].pc = "find"]
  /\ UNCHANGED <<cookie, drive, restOfAccount>>

\* handleTokenResponse with an access token: the session is persisted, then
\* ensureSpreadsheet is awaited.
InstanceTokenCallback(a) ==
  /\ instances[a].task = "none"
  /\ cookie' = PersistAuthSession(now + 1)
  /\ instances' = [instances EXCEPT ![a].task = "token", ![a].pc = "find"]
  /\ UNCHANGED <<drive, restOfAccount>>

\* The reply to the request an instance's run awaits: ensureSpreadsheet up to
\* its next await, or to its end and through the rest of its caller (both
\* callers clear the session and set needs_login when it threw).
InstanceReply(a, reply) ==
  /\ instances[a].task # "none"
  /\ reply = "noId" => instances[a].pc = "create"
  /\ (instances[a].pc = "create" /\ reply # "error") => ~drive[FreeId(drive)].exists
  /\ LET run == EnsureSpreadsheetStep(instances[a].pc, reply, drive,
                                      instances[a].id, instances[a].add)
     IN /\ drive' = run.drive
        /\ CASE run.pc = "returned" ->
                  /\ instances' = [instances EXCEPT ![a] =
                       [NoRun EXCEPT !.held = run.id, !.authState = "connected"]]
                  /\ cookie' = cookie
             [] run.pc = "threw" ->
                  /\ instances' = [instances EXCEPT ![a] =
                       [NoRun EXCEPT !.held = instances[a].held, !.authState = "needs_login"]]
                  /\ cookie' = ClearAuthSession
             [] OTHER ->
                  /\ instances' = [instances EXCEPT ![a].pc = run.pc, ![a].id = run.id,
                                                    ![a].add = run.add]
                  /\ cookie' = cookie
  /\ UNCHANGED restOfAccount

AccountInit ==
  /\ now = 0
  /\ cookie \in {NoCookie, PersistAuthSession(1)}
  /\ clientIdSet = TRUE
  /\ kind = "google"
  /\ authState = "initializing"
  /\ tokenClient = FALSE
  /\ hasGrantedToken = FALSE
  /\ currentSpreadsheetId = NoId
  /\ pendingSignIn = FALSE
  /\ gapiToken = FALSE
  /\ ready = FALSE
  /\ initPc = "idle"
  /\ signIn = "none"
  /\ openFlows = 0
  /\ tokenTask = NoTask
  /\ storageOp = "idle"
  /\ lastOp = Op("createAdapter", "none", FALSE)
  /\ AppAtRest
  /\ ReminderAtRest
  /\ FormAtRest
  /\ WeekAtRest
  /\ ListAtRest
  /\ InsightsAtRest
  /\ CloudAtRest
  /\ StoreAtRest
  /\ FactoryAtRest
  /\ LocalAtRest
  /\ WaitAtRest
  /\ TailAtRest
  /\ drive \in [SheetIds -> InitialFiles]
  /\ drive[OtherSheetId] = NoFile
  /\ provPc = [k \in Tasks |-> "find"]
  /\ provId = [k \in Tasks |-> NoId]
  /\ provAdd = [k \in Tasks |-> {}]
  /\ lastRun = "none"

AccountNext ==
  \/ \E a \in Instances : InstanceRestores(a)
  \/ \E a \in Instances : InstanceTokenCallback(a)
  \/ \E a \in Instances : \E reply \in Replies : InstanceReply(a, reply)

AccountSpec == AccountInit /\ [][AccountNext]_vars

\* ------------------------------------------------------------ check-in form
\* The texts the words input goes through, a keystroke at a time: no word,
\* one word, two words.
WordTexts == {<<>>, <<" ">>, <<"w">>, <<"w", " ">>, <<"w", " ", "w">>}
WordEdits(text) ==
  {next \in WordTexts :
     \/ Len(next) = Len(text) + 1 /\ SubSeq(next, 1, Len(text)) = text
     \/ Len(text) = Len(next) + 1 /\ SubSeq(text, 1, Len(next)) = next}

\* splitWords: the number of words in the text, a word being a run of
\* characters without white space.
SplitWords(text) ==
  Cardinality({i \in 1..Len(text) : text[i] # " " /\ (i = 1 \/ text[i - 1] = " ")})

\* handleSubmitCheckIn, line 760: !currentAdapter || !currentAdapter.isReady().
AdapterAlwaysReady(adapterReady) == FALSE
AdapterNotReady(adapterReady) == ~adapterReady

\* The words input's onInput.
SetWordsInput(text) ==
  /\ checkInForm' = [checkInForm EXCEPT !.wordsInput = text]
  /\ UNCHANGED <<envVars, adapterVars, taskVars, lastOp, appVars, signInTask, instances,
                 restOfTail>>

\* A suggested word, a context tag or an intensity is set or taken back.
SetCheckInExtras(entered) ==
  /\ checkInForm.extras # entered
  /\ checkInForm' = [checkInForm EXCEPT !.extras = entered]
  /\ UNCHANGED <<envVars, adapterVars, taskVars, lastOp, appVars, signInTask, instances,
                 restOfTail>>

\* handleSubmitCheckIn up to its await of appendCheckIn.
HandleSubmitCheckIn ==
  /\ ~checkInForm.awaiting
  /\ LET words == SplitWords(checkInForm.wordsInput) IN
     checkInForm' =
       IF AdapterNotReady(formReady)
         THEN [checkInForm EXCEPT !.status = "status.signInFirst"]
       ELSE IF words = 0
         THEN [checkInForm EXCEPT !.status = "status.wordsRequired"]
         ELSE [checkInForm EXCEPT !.status = "status.savingCheckIn",
                                  !.awaiting = TRUE,
                                  !.sent = @ \cup {words}]
  /\ UNCHANGED <<envVars, adapterVars, taskVars, lastOp, appVars, signInTask, instances,
                 restOfTail>>

\* appendCheckIn resolved: every field of the form is emptied.
AppendCheckInResolves ==
  /\ checkInForm.awaiting
  /\ checkInForm' = [EmptyCheckIn EXCEPT !.sent = checkInForm.sent,
                                         !.stored = checkInForm.stored \cup checkInForm.sent,
                                         !.status = "status.checkInSaved"]
  /\ UNCHANGED <<envVars, adapterVars, taskVars, lastOp, appVars, signInTask, instances,
                 restOfTail>>

\* appendCheckIn rejected: the catch block.
AppendCheckInRejects ==
  /\ checkInForm.awaiting
  /\ checkInForm' = [checkInForm EXCEPT !.awaiting = FALSE,
                                        !.status = "status.checkInSaveFailed"]
  /\ UNCHANGED <<envVars, adapterVars, taskVars, lastOp, appVars, signInTask, instances,
                 restOfTail>>

\* Both entry forms behind one adapter; the rating input goes from its initial
\* "5" through the empty text to "1", "10" and "1a".
SubmitTexts == {<<>>, <<"5">>, <<"1">>, <<"1", "0">>, <<"1", "a">>}

SubmitInit == RatingInit

SubmitNext ==
  \/ \E text \in RatingEdits(ratingValue) \cap SubmitTexts : SetRatingValue(text)
  \/ FormAdapterChanges
  \/ HandleSubmitRating
  \/ AppendRatingResolves
  \/ AppendRatingRejects
  \/ \E text \in WordEdits(checkInForm.wordsInput) : SetWordsInput(text)
  \/ \E entered \in BOOLEAN : SetCheckInExtras(entered)
  \/ HandleSubmitCheckIn
  \/ AppendCheckInResolves
  \/ AppendCheckInRejects

SubmitSpec == SubmitInit /\ [][SubmitNext]_vars

\* ------------------------------------- reminder settings, locally persisted
\* The signals reminderEnabled and reminderTime next to what
\* persistReminderSettings wrote last. A write to a signal outside a batch
\* runs the effects that read it before the next line of the writer.

\* hydrateSettingsFromAdapter, line 340: parsedReminderTime ?? reminderTime().
HydratedTimeUnchecked(parsed, current) == parsed
HydratedTime(parsed, current) == IF parsed = NoSlot THEN current ELSE parsed

\* The last settings event and the time value it was given.
TimeClass(value) == IF ParseReminderTime(value) = NoSlot THEN "invalid" ELSE "valid"
SettingsOp(op, saw) == [op |-> op, outcome |-> "none", remote |-> FALSE, saw |-> saw]

\* detectInitialReminderSettings: the settings persisted locally.
DetectInitialReminderSettings(persistedSettings) == persistedSettings

\* syncReminderSettings with its persistReminderSettings, the installed
\* effect after it included.
SyncAndPersist(nextEnabled, nextTime, installed) ==
  /\ SyncReminderSettings(nextEnabled, nextTime, installed)
  /\ localReminder' = ReminderSettings(reminderEnabled', reminderTime')

\* onMount: setIsInstalled, then the installed effect.
SettingsMount(standalone) ==
  /\ ~mounted
  /\ mounted' = TRUE
  /\ isInstalled' = standalone
  /\ IF ~standalone /\ reminderEnabled
       THEN SyncAndPersist(FALSE, reminderTime, standalone)
       ELSE UNCHANGED <<reminderEnabled, reminderTime, localReminder>>
  /\ lastOp' = SettingsOp("onMount", "-")
  /\ UNCHANGED restOfLocalReminder

\* handleReminderEnabledChange.
SettingsEnabledChange(checked) ==
  /\ mounted
  /\ IF ~isInstalled
       THEN UNCHANGED <<reminderEnabled, reminderTime, localReminder>>
       ELSE SyncAndPersist(checked, reminderTime, isInstalled)
  /\ lastOp' = SettingsOp("handleReminderEnabledChange", IF checked THEN "1" ELSE "0")
  /\ UNCHANGED <<isInstalled, mounted, restOfLocalReminder>>

\* handleReminderTimeChange, with the text of the time input.
SettingsTimeChange(value) ==
  /\ mounted
  /\ SyncAndPersist(reminderEnabled, value, isInstalled)
  /\ lastOp' = SettingsOp("handleReminderTimeChange", TimeClass(value))
  /\ UNCHANGED <<isInstalled, mounted, restOfLocalReminder>>

\* hydrateSettingsFromAdapter after await loadSettings(), lines 337-346:
\* setReminderEnabled (line 342) runs the installed effect, whose
\* syncReminderSettings(false, reminderTime()) writes and persists; then
\* lines 343-344 set the time and persist the values computed at 339-340.
SettingsHydrated(blob) ==
  /\ mounted
  /\ LET nextReminderEnabled == ParseBooleanSetting(blob.reminder_enabled, reminderEnabled)
         nextReminderTime == HydratedTime(ParseReminderTime(blob.reminder_time), reminderTime)
     IN IF nextReminderEnabled # reminderEnabled \/ nextReminderTime # reminderTime
          THEN /\ reminderEnabled' = InstalledEffect(nextReminderEnabled)
               /\ reminderTime' = nextReminderTime
               /\ localReminder' = ReminderSettings(nextReminderEnabled, nextReminderTime)
          ELSE UNCHANGED <<reminderEnabled, reminderTime, localReminder>>
  /\ lastOp' = SettingsOp(IF blob.reminder_enabled = "1" THEN "hydrateEnabled" ELSE "hydrate",
                          TimeClass(blob.reminder_time))
  /\ UNCHANGED <<isInstalled, mounted, restOfLocalReminder>>

\* The appinstalled event.
SettingsAppInstalled ==
  /\ mounted /\ ~isInstalled
  /\ isInstalled' = TRUE
  /\ lastOp' = SettingsOp("appinstalled", "-")
  /\ UNCHANGED <<reminderEnabled, reminderTime, localReminder, mounted, restOfLocalReminder>>

\* The page is loaded again: the signals start from the persisted settings.
SettingsReload ==
  /\ mounted
  /\ mounted' = FALSE
  /\ isInstalled' = FALSE
  /\ reminderEnabled' = DetectInitialReminderSettings(localReminder).enabled
  /\ reminderTime' = DetectInitialReminderSettings(localReminder).time
  /\ lastOp' = SettingsOp("reload", "-")
  /\ UNCHANGED <<localReminder, restOfLocalReminder>>

LocalReminderInit ==
  /\ ReminderInit
  /\ permission = "granted"
  /\ reminderEnabled = DetectInitialReminderSettings(localReminder).enabled
  /\ reminderTime = DetectInitialReminderSettings(localReminder).time

LocalReminderNext ==
  \/ \E standalone \in BOOLEAN : SettingsMount(standalone)
  \/ \E checked \in BOOLEAN : SettingsEnabledChange(checked)
  \/ \E value \in Slots \cup {NoSlot} : SettingsTimeChange(value)
  \/ \E blob \in SettingsBlobs : SettingsHydrated(blob)
  \/ SettingsAppInstalled
  \/ SettingsReload
  \/ ReminderPoll
  \/ ClockAdvances

LocalReminderSpec == LocalReminderInit /\ [][LocalReminderNext]_vars

\* ------------------------------------------------------------------ claims
\* C1: on the Google adapter a requestSignIn() made while an earlier one is
\* pending is rejected at once, opens no second interactive flow, and leaves
\* authState, pendingSignIn and the first request's promise as they were.
C1_ReentrantSignInRejected ==
  [][(kind = "google" /\ tokenClient /\ pendingSignIn /\ lastOp'.op = "requestSignIn")
       => /\ lastOp'.outcome = "rejected"
          /\ ~lastOp'.remote
          /\ UNCHANGED <<authState, pendingSignIn, signIn, openFlows, tokenTask, cookie,
                         currentSpreadsheetId, hasGrantedToken, tokenClient, initPc>>]_vars

\* A second requestSignIn() was rejected while the first is still pending.
C1_Witness ==
  /\ lastOp = Op("requestSignIn", "rejected", FALSE)
  /\ pendingSignIn /\ signIn = "pending" /\ openFlows = 1

\* C2: Google init() that finds a persisted session with expiresAtMs <= now
\* resolves, deletes the cookie and ends in the state init() reaches with no
\* persisted session: needs_login, not ready, no spreadsheet id, no
\* provisioning request.
C2_ExpiredSessionIsNoSession ==
  (kind = "google" /\ lastOp.op = "init" /\ lastOp.saw \in {"expired", "none"})
    => /\ lastOp.outcome = "resolved"
       /\ initPc = "resolved"
       /\ ~lastOp.remote
       /\ cookie = NoCookie
       /\ authState = "needs_login"
       /\ ~IsReady
       /\ currentSpreadsheetId = NoId
       /\ tokenClient /\ ~hasGrantedToken /\ ~gapiToken /\ ~pendingSignIn

\* init() has settled after reading an expired session.
C2_Witness ==
  kind = "google" /\ lastOp = InitOp("resolved", FALSE, "expired") /\ cookie = NoCookie

\* C3: whenever init() has settled, resolved or rejected, on either adapter,
\* getAuthState() is connected or needs_login.
C3_InitSettlesOutOfInitializing ==
  (lastOp.op = "init" /\ lastOp.outcome \in {"resolved", "rejected"})
    => GetAuthState \in {"connected", "needs_login"}

\* C4: in every reachable state isReady() is true exactly when getAuthState()
\* is connected.
C4_ReadyIffConnected == IsReady <=> (GetAuthState = "connected")

\* C5: an appendRating / listRatings call made while getAuthState() is not
\* connected fails without issuing a remote request.
C5_StorageNeedsConnected ==
  (lastOp.op \in StorageOps /\ lastOp.saw = "-" /\ GetAuthState # "connected")
    => (lastOp.outcome = "rejected" /\ ~lastOp.remote)

\* C6: a storage operation, failing or succeeding, changes nothing in the
\* adapter: authState, readiness, the spreadsheet id, the pending sign-in
\* slot and the persisted session stay as they were, and a failed request
\* is a rejection for the caller.
C6_StorageOpFrame ==
  [][(lastOp'.op \in StorageOps)
       => /\ UNCHANGED <<authState, ready, currentSpreadsheetId, pendingSignIn, signIn,
                         cookie, tokenClient, hasGrantedToken, gapiToken>>
          /\ IsReady' = IsReady
          /\ lastOp'.outcome \in {"pending", "resolved", "rejected"}]_vars

\* A remote request of a connected adapter has failed.
C6_Witness ==
  /\ lastOp = Settled("appendRating", "rejected")
  /\ authState = "connected" /\ IsReady

\* C7: after a failed sign-in (error callback, or a failure while handling
\* the token response) and after a failed session restore, the adapter is in
\* needs_login and no persisted session cookie remains.
SignInOrRestoreFailed ==
  \/ lastOp.op = "error_callback"
  \/ lastOp.op = "handleTokenResponse" /\ lastOp.outcome = "rejected"
  \/ lastOp.op = "init" /\ lastOp.saw = "restoreFailed"
C7_FailureClearsSession ==
  SignInOrRestoreFailed => (authState = "needs_login" /\ cookie.kind = "none")

\* C8: the promise of an accepted requestSignIn() resolves only in a state
\* with authState connected and isReady() true, and rejects only in a state
\* with authState needs_login.
C8_SignInOutcomeMatchesState ==
  (lastOp.op \in {"handleTokenResponse", "error_callback"})
    => /\ lastOp.outcome = "resolved" => (authState = "connected" /\ IsReady)
       /\ lastOp.outcome = "rejected" => authState = "needs_login"

\* An accepted requestSignIn() has resolved.
C8_Witness ==
  /\ lastOp = Op("handleTokenResponse", "resolved", FALSE)
  /\ signIn = "resolved"

\* C9: a boot() that resumes (after init(), the settings load or the
\* settings save) when its sequence number is no longer bootSequence, or the
\* selected backend or the active adapter is no longer its own, applies
\* nothing: isReady, signInEnabled, the toasts and the settings stay as they
\* were; so only the boot whose sequence number is bootSequence changes them.
BootResumes(s) ==
  boots[s].pc \in {"init", "hydrate", "save"} /\ boots'[s].pc # boots[s].pc
C9_StaleBootAppliesNothing ==
  [][\A s \in 1..MaxBoots :
       (BootResumes(s)
          /\ (s # bootSequence \/ selectedBackend # boots[s].backend \/ adapter # s))
         => UNCHANGED <<uiVars, settingVars>>]_vars

\* A boot whose init() resolved connected resumed stale and was discarded,
\* while a later boot is in charge and the app is not ready.
C9_Witness ==
  \E s \in 1..MaxBoots :
    /\ boots[s].pc = "stale" /\ boots[s].authState = "connected"
    /\ s < bootSequence /\ ~isReady

\* C10: whatever the reminder checks (mount, the interval, the check after
\* permission is granted) and the changes of reminder settings within one
\* local calendar day, at most one reminder fires on that day.
C10_AtMostOneReminderPerDay == firedToday <= 1

\* A reminder has fired today, and a later check, with the reminder still
\* enabled and its time reached, fired nothing.
C10_Witness ==
  /\ firedToday = 1 /\ lastCheck = "notDue"
  /\ reminderEnabled /\ slot >= reminderTime /\ lastSentDateKey = DateKey(day)

ReminderStatuses == {"status.reminderDue", "status.reminderPermissionNeeded"}

\* C13: a reminder that fires while the permission is not granted marks
\* today as sent and shows a status, not a notification; once today is marked,
\* the mark stays for the day and no step of that day produces a notification,
\* even after the permission is granted.
C13_UngrantedReminderStillMarksDay ==
  [][/\ (firedToday' = firedToday + 1 /\ permission' # "granted")
          => (lastSentDateKey' = DateKey(day) /\ lastCheck' \in ReminderStatuses)
     /\ (lastSentDateKey = DateKey(day) /\ day' = day)
          => /\ lastSentDateKey' = lastSentDateKey
             /\ firedToday' = firedToday
             /\ lastCheck' = "notification" => lastCheck = "notification"]_vars

\* A status was shown for today's reminder, and the permission has been
\* granted since.
C13_Witness ==
  /\ lastCheck \in ReminderStatuses /\ permission = "granted"
  /\ firedToday = 1 /\ lastSentDateKey = DateKey(day)
  /\ reminderEnabled /\ slot >= reminderTime

\* The texts that denote the integer n: its decimal digits, after any number
\* of zeros, followed by nothing or by a point and zeros.
RECURSIVE Zeros(_)
Zeros(k) == IF k = 0 THEN <<>> ELSE <<"0">> \o Zeros(k - 1)
Decimal(n) ==
  IF n < 10 THEN <<DecimalDigits[n + 1]>>
  ELSE <<DecimalDigits[(n \div 10) + 1], DecimalDigits[(n % 10) + 1]>>
DenotesInteger(text, n) ==
  \E k \in 0..Len(text) : \E j \in 0..Len(text) :
    /\ Len(text) = k + Len(Decimal(n)) + j
    /\ text = Zeros(k) \o Decimal(n) \o (IF j = 0 THEN <<>> ELSE <<".">> \o Zeros(j - 1))
DenotedRatings(text) == {n \in 1..10 : DenotesInteger(Trim(text), n)}

\* C14: parseRatingInput returns n exactly when the trimmed input denotes an
\* integer n in 1..10, and null for every other input.
C14_ParseRatingInputAcceptsOneToTen ==
  LET parsed == ParseRatingInput(ratingValue)
      denoted == DenotedRatings(ratingValue) IN
  IF denoted = {} THEN parsed = NullRating ELSE denoted = {parsed.rating} /\ ~parsed.isNull

\* The input " 10" is held and parses to 10.
C14_Witness ==
  /\ ratingValue = <<" ", "1", "0">>
  /\ ParseRatingInput(ratingValue) = Rating(10)

\* C15: appendRating is only ever invoked with an integer rating in 1..10,
\* only what it was invoked with is stored, and a submission adds a call
\* only for an input that denotes such a rating.
C15_OnlyValidRatingsReachAdapter ==
  /\ [](/\ \A call \in appendCalls : ~call.isNull /\ call.rating \in 1..10
        /\ persisted \subseteq appendCalls)
  /\ [][appendCalls' # appendCalls =>
          \E n \in DenotedRatings(ratingValue) : appendCalls' = appendCalls \cup {Rating(n)}]_vars

\* An input that fails validation was submitted on a ready adapter, after a
\* valid one had been stored: nothing was added for it.
C15_Witness ==
  /\ formStatus = "status.invalidRating" /\ formReady
  /\ DenotedRatings(ratingValue) = {} /\ ratingValue # <<>>
  /\ persisted = {Rating(5)} /\ appendCalls = {Rating(5)} /\ ~submitPc.awaiting

Drawn == chartPoints # <<>>
Today == StartOfDay(weekNow)

\* C16: buildLastWeekSeries returns exactly 7 points, oldest first, whose day
\* keys are the 7 consecutive local days that end at the day of now, each
\* once.
C16_SeriesIsLastSevenDays ==
  Drawn =>
    /\ Len(chartPoints) = 7
    /\ chartPoints[7].dayKey = Today
    /\ \A i \in 1..6 : chartPoints[i + 1].dayKey = chartPoints[i].dayKey + 1
    /\ \A d \in (Today - 6)..Today :
          Cardinality({i \in 1..Len(chartPoints) : chartPoints[i].dayKey = d}) = 1

\* A series was built at the start of a day from a sheet with a row of the
\* evening before.
C16_Witness ==
  /\ Drawn /\ weekNow = Instant(WindowDays + 1, 0)
  /\ \E r \in 1..Len(rows) :
        rows[r].timestamp = IsoCell(Instant(WindowDays, SlotsPerDay - 1))

\* The valid entries of a local day: the rows with a parseable timestamp on
\* that day and a numeric rating.
EntriesOn(d) ==
  {r \in 1..Len(rows) :
     /\ rows[r].timestamp.text = "iso" /\ rows[r].rawRating.text = "number"
     /\ rows[r].timestamp.value \in Instant(d, 0)..Instant(d, SlotsPerDay - 1)}
RECURSIVE RatingSum(_)
RatingSum(entries) ==
  IF entries = {} THEN 0
  ELSE LET r == CHOOSE e \in entries : TRUE IN
       rows[r].rawRating.value + RatingSum(entries \ {r})

RowIsCorrupt(row) == row.timestamp.text # "iso" \/ row.rawRating.text # "number"
RowIsOutside(row) ==
  row.timestamp.text = "iso" /\ StartOfDay(row.timestamp.value) \notin (Today - 6)..Today
RowIsSound(row) == ~RowIsCorrupt(row) /\ ~RowIsOutside(row)

\* C18: rows with a missing or unparseable timestamp or a non-finite rating,
\* and rows dated outside the window, are skipped: the series is the one
\* computed from the rows without them.
C18_BadRowsAreSkipped ==
  Drawn => chartPoints = BuildLastWeekSeries(SelectSeq(rows, RowIsSound), weekNow)

\* A series was built from a sheet that holds a corrupt row, a row outside
\* the window and a sound row.
C18_Witness ==
  /\ Drawn
  /\ \E a, b, c \in 1..Len(rows) :
        /\ RowIsCorrupt(rows[a]) /\ rows[a].rawRating.text = "x"
        /\ RowIsOutside(rows[b]) /\ ~RowIsCorrupt(rows[b])
        /\ RowIsSound(rows[c])
  /\ \E i \in 1..Len(chartPoints) : ~chartPoints[i].value.isNull

\* The stored rows the range asks for: a timestamp that parses to an instant
\* between fromIso and toIso, both included, and a rating that reads as a
\* finite number.
RowsInRange ==
  {r \in 1..Len(rows) :
     /\ rows[r].timestamp.text = "iso" /\ range.fromIso.text = "iso" /\ range.toIso.text = "iso"
     /\ rows[r].timestamp.value \in range.fromIso.value..range.toIso.value
     /\ rows[r].rawRating.text \notin {"", "x"}}

\* C19: on a connected Google adapter listRatings(range) resolves with
\* exactly the stored rows inside the range, bounds included, that have a
\* finite rating: each such row once, and nothing else.
C19_ListRatingsReturnsRange ==
  (lastOp = Settled("listRatings", "resolved") /\ authState = "connected") =>
    /\ Len(listed) = Cardinality(RowsInRange)
    /\ \A e \in {listed[i] : i \in 1..Len(listed)} \cup {RatingEntry(rows[r]) : r \in RowsInRange} :
          Cardinality({i \in 1..Len(listed) : listed[i] = e})
            = Cardinality({r \in RowsInRange : RatingEntry(rows[r]) = e})

\* listRatings resolved with the row at toIso while the sheet also holds a
\* row after toIso.
C19_Witness ==
  /\ lastOp = Settled("listRatings", "resolved")
  /\ range = [fromIso |-> IsoCell(1), toIso |-> IsoCell(2)]
  /\ Len(listed) = 1 /\ listed[1].timestamp = IsoCell(2) /\ listed[1].rating.value = 4
  /\ \E r \in 1..Len(rows) : rows[r].timestamp = IsoCell(3)

\* Whether every one of the k days that end at day d holds a check-in.
DaysAllActive(d, k) == \A i \in 0..(k - 1) : (d - i) \in ActiveDays(checkIns)
InsightsToday == StartOfDay(insightsNow)

\* C20: the current streak is the length of the longest run of consecutive
\* local days, each with a check-in, that ends at today if today has one and
\* at yesterday otherwise; it is 0 when neither day has one.
C20_StreakIsRunEndingTodayOrYesterday ==
  checkInInsights.refreshed =>
    LET streak == checkInInsights.currentStreak
        end == IF InsightsToday \in ActiveDays(checkIns)
                 THEN InsightsToday ELSE InsightsToday - 1 IN
    /\ DaysAllActive(end, streak)
    /\ ~DaysAllActive(end, streak + 1)
    /\ (InsightsToday \notin ActiveDays(checkIns)
          /\ (InsightsToday - 1) \notin ActiveDays(checkIns)) => streak = 0
    /\ (checkIns = {Instant(InsightsToday - 2, 0), Instant(InsightsToday - 1, 0),
                    Instant(InsightsToday, 0)}) => streak = 3
    /\ (checkIns = {Instant(InsightsToday - 2, 0), Instant(InsightsToday, 0)}) => streak = 1

\* Today has no check-in yet; yesterday and the day before have, behind a gap
\* and an older check-in: the streak is 2.
C20_Witness ==
  /\ checkInInsights.refreshed /\ checkInInsights.currentStreak = 2
  /\ InsightsToday \notin ActiveDays(checkIns)
  /\ (InsightsToday - 3) \notin ActiveDays(checkIns)
  /\ (InsightsToday - 4) \in ActiveDays(checkIns)

\* The places of the words read, entry by entry; the folded word at a place;
\* the places whose word is retained; reading order.
CloudPlaces ==
  {p \in (1..Len(cloudRows)) \X (1..MaxCloudWords) : p[2] <= Len(cloudRows[p[1]].words)}
FoldedAt(p) == ToLowerCase(cloudRows[p[1]].words[p[2]])
RetainedPlaces == {p \in CloudPlaces : WordIsRetained(FoldedAt(p))}
ReadBefore(p, q) == p[1] < q[1] \/ (p[1] = q[1] /\ p[2] < q[2])
FirstSeenAt(word) ==
  CHOOSE p \in RetainedPlaces :
    /\ FoldedAt(p) = word
    /\ \A q \in RetainedPlaces : FoldedAt(q) = word => (q = p \/ ReadBefore(p, q))

\* C21: buildWordCloud returns one {word, score} pair per distinct retained
\* word; the score is the number of occurrences of the word over all the
\* entries, duplicates inside one entry included; the pairs are in descending
\* order of score, and pairs of equal score in the order their words were
\* first seen.
C21_WordCloudCountsAndOrders ==
  cloudWords.refreshed =>
    LET cloud == cloudWords.words IN
    /\ {cloud[i].word : i \in 1..Len(cloud)} = {FoldedAt(p) : p \in RetainedPlaces}
    /\ Len(cloud) = Cardinality({FoldedAt(p) : p \in RetainedPlaces})
    /\ \A i \in 1..Len(cloud) :
          cloud[i].score = Cardinality({p \in RetainedPlaces : FoldedAt(p) = cloud[i].word})
    /\ \A i, j \in 1..Len(cloud) :
          i < j => \/ cloud[i].score > cloud[j].score
                   \/ /\ cloud[i].score = cloud[j].score
                      /\ ReadBefore(FirstSeenAt(cloud[i].word), FirstSeenAt(cloud[j].word))
    /\ cloudRows = <<[words |-> <<<<"c", "a">>, <<"c", "a">>, <<"t", "i">>>>],
                     [words |-> <<<<"c", "a">>>>]>>
         => cloud = <<[word |-> <<"c", "a">>, score |-> 3], [word |-> <<"t", "i">>, score |-> 1]>>

\* A cloud was built from an entry that holds a word twice, in two spellings,
\* behind a word seen first, and from an entry of a stop word: the repeated
\* word leads with score 2.
C21_Witness ==
  /\ cloudRows = <<[words |-> <<<<"t", "i">>, <<"C", "a">>, <<"c", "a">>>>],
                   [words |-> <<<<"o", "f">>>>]>>
  /\ cloudWords.refreshed
  /\ cloudWords.words = <<[word |-> <<"c", "a">>, score |-> 2], [word |-> <<"t", "i">>, score |-> 1]>>

C28_NextThemePreferenceIsThreeCycle ==
  /\ [](LET p == themePreference
            q == NextThemePreference(p)
            r == NextThemePreference(q) IN
        /\ p \in ThemePreferences
        /\ q = (CASE p = "light" -> "dark" [] p = "dark" -> "system" [] p = "system" -> "light")
        /\ NextThemePreference(r) = p
        /\ {p, q, r} = ThemePreferences)
  /\ [][themePreference' # themePreference
          => <<themePreference, themePreference'>>
               \in {<<"light", "dark">>, <<"dark", "system">>, <<"system", "light">>}]_vars

\* The preference, system at first, has been advanced to dark and saved.
C28_Witness ==
  /\ themePreference = "dark"
  /\ lastSettingsOp.op = "save" /\ "theme_preference" \in DOMAIN lastSettingsOp.blob
  /\ settingsStore["theme_preference"] = "dark"

\* The errors init() can reject with, and the key each failure is to show.
InitErrors == {"MissingGoogleClientIdError", "Error"}
FailureKey(backend, missingClientId) ==
  IF missingClientId THEN "status.missingClientId"
  ELSE IF backend = "local_api" THEN "status.localApiUnavailable"
  ELSE "status.googleClientInitFailed"

\* C27: resolveInitFailureStatus returns isError = true for every backend and
\* error; its key is status.missingClientId for a MissingGoogleClientIdError
\* whatever the backend, else status.localApiUnavailable for local_api and
\* status.googleClientInitFailed otherwise; a boot whose init() rejected
\* shows exactly that status (init() leaves needs_login behind only when it
\* rejects for the missing client id).
C27_InitFailureStatus ==
  /\ [](\A backend \in DataBackends : \A error \in InitErrors :
          LET failure == ResolveInitFailureStatus(backend, error) IN
          /\ failure.isError
          /\ failure.key = FailureKey(backend, error = "MissingGoogleClientIdError"))
  /\ [][\A s \in 1..MaxBoots :
          (boots[s].pc = "init" /\ boots'[s].pc = "failed")
            => /\ Cardinality(toasts' \ toasts) = 1
               /\ \A toast \in toasts' \ toasts :
                     /\ toast.isError
                     /\ toast.text = FailureKey(boots[s].backend,
                                                boots'[s].authState = "needs_login")]_vars

\* A boot on the local API failed and its status is shown, after a boot on
\* Google failed for another reason than the client id.
C27_Witness ==
  /\ \E s \in 1..MaxBoots : boots[s].pc = "failed" /\ boots[s].backend = "local_api"
  /\ \E toast \in toasts : toast.text = "status.localApiUnavailable" /\ toast.isError
  /\ \E toast \in toasts : toast.text = "status.googleClientInitFailed"

\* C26: resolveDataBackend returns local_api exactly for the text local_api
\* and google for every other value, undefined included; createAdapter(b)
\* returns a local API adapter for local_api and a Google adapter for google,
\* and createAdapter() the adapter of the configured backend; every adapter
\* returned is a new one: authState initializing, not ready, no field and no
\* task carried over from the adapter before it.
C26_FactoryReturnsRequestedAdapter ==
  /\ ResolveDataBackend(envBackend) \in DataBackends
  /\ (ResolveDataBackend(envBackend) = "local_api") <=> (envBackend = "local_api")
  /\ lastOp.op = "createAdapter" =>
       /\ requested = "local_api" => kind = "local_api"
       /\ requested = "google" => kind = "google"
       /\ requested = Undefined => (kind = "local_api" <=> envBackend = "local_api")
       /\ kind \in DataBackends
       /\ GetAuthState = "initializing" /\ ~IsReady
       /\ ~tokenClient /\ ~hasGrantedToken /\ ~pendingSignIn /\ ~gapiToken
       /\ initPc = "idle" /\ signIn = "none" /\ openFlows = 0 /\ ~tokenTask.active

\* createAdapter() was called with no backend, under a configuration that
\* names none exactly, on a page where an earlier adapter had signed in.
C26_Witness ==
  /\ lastOp.op = "createAdapter" /\ requested = Undefined
  /\ envBackend = "LOCAL_API" /\ kind = "google"
  /\ cookie.kind = "session" /\ cookie.expiresAtMs > MaxExpiresIn

\* C24: Google init() that finds a persisted session not yet expired asks for
\* the spreadsheet with the session's token, and when that provisioning
\* succeeds init() resolves with authState connected and isReady() true; no
\* step of init() opens an interactive flow, starts or settles a sign-in, or
\* touches the persisted session.
C24_ValidSessionRestoresSilently ==
  /\ []((kind = "google" /\ lastOp.op = "init" /\ lastOp.saw = "valid")
          => (initPc = "restoring" /\ lastOp.remote /\ gapiToken /\ cookie.kind = "session"))
  /\ []((kind = "google" /\ lastOp.op = "init" /\ lastOp.saw = "restored")
          => /\ lastOp.outcome = "resolved" /\ initPc = "resolved"
             /\ GetAuthState = "connected" /\ IsReady)
  /\ [][(kind = "google" /\ lastOp'.op = "init" /\ lastOp'.saw \in {"valid", "restored"})
          => UNCHANGED <<cookie, openFlows, signIn, pendingSignIn>>]_vars

\* init() has restored a session and is connected; no sign-in was ever
\* requested and the session is still persisted.
C24_Witness ==
  /\ kind = "google" /\ lastOp = InitOp("resolved", FALSE, "restored")
  /\ authState = "connected" /\ IsReady
  /\ signIn = "none" /\ openFlows = 0 /\ ~pendingSignIn
  /\ cookie.kind = "session" /\ now < cookie.expiresAtMs

\* The changes of authState the lifecycle allows, and the one an accepted
\* requestSignIn() makes.
AllowedAuthEdges ==
  {<<"initializing", "connected">>, <<"initializing", "needs_login">>}
SignInAuthEdges ==
  {<<"needs_login", "initializing">>, <<"connected", "initializing">>}

\* C30: on one adapter authState changes only from initializing to connected,
\* from initializing to needs_login, and, by an accepted requestSignIn(), from
\* needs_login or connected to initializing; never from needs_login to
\* connected or from connected to needs_login.
C30_AuthStateEdges ==
  [][(authState' # authState /\ lastOp'.op # "createAdapter")
       => \/ <<authState, authState'>> \in AllowedAuthEdges
          \/ /\ <<authState, authState'>> \in SignInAuthEdges
             /\ lastOp' = Op("requestSignIn", "pending", TRUE)]_vars


\* ------------------------------------------------------------------ C29
\* A step that is a call of init(), appendRating() or listRatings() on the
\* local API adapter, accepted or turned away by assertReady.
LocalCallOps == {"init", "appendRating", "listRatings"}
LocalCallStep ==
  /\ kind = "local_api"
  /\ \/ lastOp' = InitOp("pending", TRUE, "-")
     \/ \E op \in StorageOps : lastOp' \in {Op(op, "pending", TRUE), Op(op, "rejected", FALSE)}

\* The request that call is to make.
RightRequest(op, request) ==
  CASE op = "init" -> request = HealthRequest
    [] op = "appendRating" ->
         /\ request.method = "POST" /\ request.path = "/api/ratings"
         /\ request.body \in LocalEntries
    [] op = "listRatings" ->
         /\ request.method = "GET" /\ request.path = "/api/ratings"
         /\ request.query \in LocalRanges

\* C29 as stated: every call of init(), appendRating() and listRatings() on
\* the local API adapter issues exactly one HTTP request.
C29_EveryLocalCallFetchesOnce ==
  [][LocalCallStep => Len(fetchLog') = Len(fetchLog) + 1]_vars

\* C29 (amended): init(), and every appendRating() and listRatings() that
\* assertReady lets through, issues exactly one HTTP request, of its own kind
\* (health check, POST of the entry, GET with from/to); a call assertReady
\* turns away issues none, and no other step issues a request. A listRatings
\* that succeeds returns the items of the response body in their order, or
\* the empty list when the body has no items field.
C29_AcceptedLocalCallFetchesOnce ==
  [][/\ (LocalCallStep /\ lastOp'.outcome = "pending")
          => /\ Len(fetchLog') = Len(fetchLog) + 1
             /\ SubSeq(fetchLog', 1, Len(fetchLog)) = fetchLog
             /\ RightRequest(lastOp'.op, fetchLog'[Len(fetchLog')])
     /\ ~(LocalCallStep /\ lastOp'.outcome = "pending") => fetchLog' = fetchLog
     /\ (kind = "local_api" /\ storageOp = "listRatings"
           /\ lastOp' = Settled("listRatings", "resolved"))
          => /\ localResponse'.hasItems => localListed' = localResponse'.items
             /\ ~localResponse'.hasItems => localListed' = <<>>]_vars

\* An init, an append and a list have each made their request, and the list
\* has returned two items.
C29_Witness ==
  /\ Len(fetchLog) = 3
  /\ fetchLog[1] = HealthRequest
  /\ \E i \in 2..3 : fetchLog[i].method = "POST"
  /\ \E i \in 2..3 : fetchLog[i].method = "GET"
  /\ Len(localListed) = 2 /\ localListed[1] # localListed[2]
  /\ lastOp = Settled("listRatings", "resolved")


\* ------------------------------------------------------------------ C23
\* init() is held by its wait for the scripts.
WaitingForScripts == kind = "google" /\ initPc = "loading" /\ scriptsPc = "pending"

\* C23: each waitFor terminates: it resolves only with its check true, it
\* rejects only after more than the bound has elapsed, and a wait that polls
\* comes to one of the two; so an init() held by the waits does not hang: it
\* rejects, unless both scripts load.
C23_WaitForTerminates ==
  /\ [](\A w \in Scripts :
          /\ waitPc[w] = "resolved" => scriptLoaded[w]
          /\ waitPc[w] = "rejected" => waitClock > TimeoutMs)
  /\ \A w \in Scripts : (waitPc[w] = "polling") ~> (waitPc[w] \in {"resolved", "rejected"})
  /\ WaitingForScripts ~> (initPc = "rejected" \/ \A w \in Scripts : scriptLoaded[w])
  /\ WaitingForScripts ~> ~WaitingForScripts

\* The scripts never loaded, both waits timed out and init() has rejected.
C23_Witness ==
  /\ \A w \in Scripts : ~scriptLoaded[w] /\ waitPc[w] = "rejected"
  /\ waitClock = LastPollMs
  /\ initPc = "rejected" /\ scriptsPc = "rejected"


\* ------------------------------------------------------------------ C25
\* The spreadsheet of that id is fully provisioned: it is there, with the
\* data and the config sheet, and row 1 of the data sheet is the header.
Provisioned(id) ==
  /\ id # NoId
  /\ drive[id].exists
  /\ RequiredSheets \subseteq drive[id].sheets
  /\ HasHeaders(drive[id].header)

\* C25: whenever a Google adapter is connected, or isReady() is true, a
\* spreadsheet id is set, that spreadsheet has both sheets and the header
\* row, and no provisioning step is outstanding or has failed.
C25_ConnectedMeansProvisioned ==
  (kind = "google" /\ (authState = "connected" \/ GoogleIsReady))
    => /\ Provisioned(currentSpreadsheetId)
       /\ \A k \in Tasks : ~RunActive(k)
       /\ lastRun # "threw"


\* ------------------------------------------------------------------ C31
\* The Drive holds no spreadsheet of the name; the oldest one it holds.
DriveIsEmpty == \A id \in SheetIds : ~drive[id].exists
OldestFile == IF drive[SheetId].exists THEN SheetId ELSE OtherSheetId
FilesIn(files) == {id \in SheetIds : files[id].exists}

\* C31: a run of ensureSpreadsheet comes to its create request only from a
\* search that found no spreadsheet, and only a create request adds one to
\* the Drive; a search that found one takes the oldest and goes on to its
\* sheets, and the id a run returns is that of a spreadsheet with both sheets
\* and the header row; a create that returns no id ends the run in failure,
\* with the adapter not connected.
C31_CreatesOnlyWhenNoneFound ==
  [][\A k \in Tasks :
       /\ (provPc'[k] = "create" /\ provPc[k] # "create")
            => (provPc[k] = "find" /\ DriveIsEmpty)
       /\ (provPc[k] = "find" /\ provPc'[k] # "find" /\ ~DriveIsEmpty)
            => (provPc'[k] = "sheetsGet" /\ provId'[k] = OldestFile /\ drive' = drive)
       /\ FilesIn(drive') # FilesIn(drive)
            => \E j \in Tasks : RunActive(j) /\ provPc[j] = "create"
       /\ (RunActive(k) /\ ~RunActive(k)' /\ lastRun' = "returned")
            => /\ currentSpreadsheetId' = provId[k]
               /\ drive'[provId[k]].exists
               /\ RequiredSheets \subseteq drive'[provId[k]].sheets
               /\ drive'[provId[k]].header = "headers"
       /\ (RunActive(k) /\ provPc[k] = "create" /\ ~RunActive(k)'
             /\ FilesIn(drive') # FilesIn(drive))
            => (lastRun' = "threw" /\ authState' # "connected")]_vars

\* A run found the spreadsheet, which lacks the config sheet, and awaits the
\* batchUpdate that adds it; nothing was created.
C31_Witness ==
  /\ RunActive("token") /\ provPc["token"] = "batchUpdate"
  /\ provId["token"] = SheetId /\ provAdd["token"] = {"config"}
  /\ ~drive[OtherSheetId].exists


\* ------------------------------------------------------------------ C32
\* C32: on the local API adapter an init() that gets an ok health response
\* resolves and leaves authState connected and isReady() true; one that gets
\* a response that is not ok, or none, rejects and leaves both as they were
\* (so isReady() stays false); this holds of every init() on the instance, a
\* later one after a rejected one included.
C32_LocalInitFollowsHealth ==
  [][(kind = "local_api" /\ initPc = "loading" /\ initPc' # "loading")
       => IF healthLog'[Len(healthLog')] = "ok"
            THEN initPc' = "resolved" /\ authState' = "connected" /\ LocalIsReady'
            ELSE /\ initPc' = "rejected"
                 /\ LocalIsReady' = LocalIsReady
                 /\ authState' = authState]_vars

\* A first init() rejected on a response that was not ok, a second one
\* resolved: the adapter is connected and ready.
C32_Witness ==
  /\ kind = "local_api"
  /\ healthLog = <<"notOk", "ok">>
  /\ initPc = "resolved" /\ authState = "connected" /\ LocalIsReady


\* ------------------------------------------------------------------ C33
\* C33: requestSignIn() on a Google adapter that has no OAuth token client
\* yet rejects and changes nothing: authState, the pending sign-in slot, the
\* persisted session and the open interactive flows are as before.
C33_SignInWithoutClientIsNoOp ==
  [][(kind = "google" /\ ~tokenClient /\ lastOp'.op = "requestSignIn")
       => /\ lastOp'.outcome = "rejected"
          /\ UNCHANGED <<authState, pendingSignIn, cookie, openFlows, signIn>>]_vars

\* requestSignIn() was turned away after an init() that rejected, with a
\* session persisted.
C33_Witness ==
  /\ kind = "google" /\ ~tokenClient /\ initPc = "rejected"
  /\ cookie.kind = "session"
  /\ lastOp = Op("requestSignIn", "rejected", FALSE)


\* ------------------------------------------------------------------ C34
\* C34: the UI flag isReady is true only if the current adapter's isReady()
\* is true; a sign-in on an earlier adapter that resolves after the backend
\* effect has replaced that adapter does not set the flag.
C34_UiReadyOnlyWithReadyAdapter ==
  isReady => (adapter \in 1..MaxBoots /\ AdapterIsReady(adapter))


C36_OneSpreadsheetPerAccount ==
  /\ Cardinality(FilesIn(drive)) <= 1
  /\ \A a, b \in Instances :
       (instances[a].authState = "connected" /\ instances[b].authState = "connected")
         => instances[a].held = instances[b].held


C38_ReminderTimeAlwaysValid ==
  /\ [](reminderTime \in Slots /\ localReminder.time = reminderTime)
  /\ []((lastOp.op = "handleReminderTimeChange" /\ lastOp.saw = "invalid")
          => reminderTime = DefaultReminderTime)
  /\ [][(lastOp'.op \in {"hydrate", "hydrateEnabled"} /\ lastOp'.saw = "invalid")
          => reminderTime' = reminderTime]_vars

\* A blob without a usable reminder_time was hydrated while the time was not
\* the default: the time is still that one, here and in local persistence.
C38_Witness ==
  /\ lastOp.op = "hydrateEnabled" /\ lastOp.saw = "invalid"
  /\ reminderTime = 0 /\ localReminder.time = 0 /\ reminderEnabled

\* ------------------------------------------------------------------ C39
\* C39: once the app is mounted and its effects have run, the reminder is
\* enabled, in the app's state and in local persistence, only if the app is
\* installed.
C39_EnabledOnlyIfInstalled ==
  mounted => ((reminderEnabled \/ localReminder.enabled) => isInstalled)

====
